---- MODULE Spec2Model ----
(***************************************************************************)
(* A model of spica.featmat: the FeatureMatrix class and its Labeling      *)
(* class.  Python values are modelled as follows.                          *)
(*   None / a value x     the tuples << >> and << x >>  (None, Some(x))     *)
(*   a str used as an id  the tuple of its characters ("f1" is <<"f","1">>)*)
(*   a list               a sequence;  a dict: a function                   *)
(*   a numpy array        a record [shape, v], v the sequence of its rows   *)
(*   a raised exception   the name of its class in the field err           *)
(* Row and column positions are kept 0-based, as the code computes them.   *)
(***************************************************************************)
EXTENDS Integers, Sequences, FiniteSets, TLC

VARIABLES fm, other, alias, caller_ids, disk, loaded, saved, last, pre, blocks, fe

vars == << fm, other, alias, caller_ids, disk, loaded, saved, last, pre, blocks, fe >>

----------------------------------------------------------------------------
(* Bounds of the explored inputs *)

\* the longest feature id list handed to one add_features call
MaxIds == 2
\* the widest matrix a FeatureMatrix is driven to
MaxCols == 3
\* the most blocks added to a matrix before its features are deleted
MaxBlocks == 3
\* the longest class id list handed to get_dataset and object_indices
MaxClassIds == 2
\* the longest class name list handed to add_labels
MaxClasses == 3
\* the bits of mantissa the floats of the model carry
MantBits == 5

----------------------------------------------------------------------------
(* Python values *)

None == << >>
Some(x) == << x >>
IsNone(o) == o = << >>
Val(o) == o[1]
NoErr == ""

ToSet(s) == { s[i] : i \in 1..Len(s) }
NoDup(s) == Len(s) = Cardinality(ToSet(s))
Min(a, b) == IF a < b THEN a ELSE b

\* truth value of a list-or-None (if x: ...)
Truthy(o) == ~IsNone(o) /\ Len(Val(o)) > 0
\* truth value of a dict-or-None
TruthyDict(o) == ~IsNone(o) /\ DOMAIN Val(o) # {}

EmptyDict == [k \in {} |-> 0]

\* dict(zip(keys, vals)): zip stops at the shorter list, a later pair wins
DictZip(keys, vals) ==
  LET n == Min(Len(keys), Len(vals))
      last_i(k) == CHOOSE i \in 1..n : keys[i] = k /\ \A j \in (i+1)..n : keys[j] # k
  IN [k \in { keys[i] : i \in 1..n } |-> vals[last_i(k)]]

\* d.update(e)
DictUpdate(d, e) == e @@ d

\* seq[i] with a Python index: 0-based, negative counts from the end
InRange(s, i) == i < Len(s) /\ i >= 0 - Len(s)
PIndex(s, i) == IF i >= 0 THEN s[i + 1] ELSE s[Len(s) + i + 1]

\* list.index(x), 0-based; the caller guards x \in ToSet(s)
ListIndex(s, x) == (CHOOSE i \in 1..Len(s) : s[i] = x /\ \A j \in 1..(i-1) : s[j] # x) - 1

RECURSIVE Insert(_, _)
Insert(s, x) ==
  IF s = << >> THEN << x >>
  ELSE IF x < Head(s) THEN << x >> \o s
  ELSE << Head(s) >> \o Insert(Tail(s), x)

\* sorted(list) of integers: duplicates are kept
RECURSIVE sorted(_)
sorted(s) == IF s = << >> THEN << >> ELSE Insert(sorted(Tail(s)), Head(s))

RECURSIVE Flatten(_)
Flatten(ss) == IF ss = << >> THEN << >> ELSE Head(ss) \o Flatten(Tail(ss))

----------------------------------------------------------------------------
(* str: formatting and splitting *)

Digit(d) == CASE d = 0 -> "0" [] d = 1 -> "1" [] d = 2 -> "2" [] d = 3 -> "3"
              [] d = 4 -> "4" [] d = 5 -> "5" [] d = 6 -> "6" [] d = 7 -> "7"
              [] d = 8 -> "8" [] d = 9 -> "9"

\* '%i' % n for n >= 0
RECURSIVE FormatInt(_)
FormatInt(n) == IF n < 10 THEN << Digit(n) >> ELSE FormatInt(n \div 10) \o << Digit(n % 10) >>

\* s.split(sep) for a one-character separator
RECURSIVE SplitFrom(_, _, _)
SplitFrom(s, sep, cur) ==
  IF s = << >> THEN << cur >>
  ELSE IF Head(s) = sep THEN << cur >> \o SplitFrom(Tail(s), sep, << >>)
  ELSE SplitFrom(Tail(s), sep, Append(cur, Head(s)))
Split(s, sep) == SplitFrom(s, sep, << >>)

\* s[:n]
Prefix(s, n) == SubSeq(s, 1, Min(n, Len(s)))

CUSTOM_FEAT_PRE == << "c", "u", "s" >>
CUSTOM_FEAT_NAME == << "C", "u", "s", "t", "o", "m", " ", "f", "e", "a", "t", "u", "r", "e",
                       " ", "v", "e", "c", "t", "o", "r" >>

----------------------------------------------------------------------------
(* numpy arrays *)

Mat(r, c, v) == [shape |-> << r, c >>, v |-> v]

\* hstack with the new columns put in front
HstackInFront(a, b) ==
  Mat(a.shape[1], a.shape[2] + b.shape[2], [i \in 1..a.shape[1] |-> b.v[i] \o a.v[i]])

\* numpy.hstack([a, b]) of two 2-D arrays with the same number of rows
hstack(a, b) ==
  Mat(a.shape[1], a.shape[2] + b.shape[2], [i \in 1..a.shape[1] |-> a.v[i] \o b.v[i]])

\* column j (0-based) of a 2-D array, top to bottom
Column(m, j) == [i \in 1..m.shape[1] |-> m.v[i][j + 1]]

----------------------------------------------------------------------------
(* class Labeling *)

Labeling(name) ==
  [name |-> name, labels |-> None, class_names |-> None, object_indices_per_class |-> None]

LRes(l, err) == [lab |-> l, err |-> err]

MaxOf(s) == CHOOSE m \in ToSet(s) : \A x \in ToSet(s) : x <= m

set_class_names(l, names) ==
  IF ~Truthy(l.labels) THEN LRes(l, "ValueError")
  ELSE IF ~(Len(names) > MaxOf(Val(l.labels))) THEN LRes(l, "ValueError")
  ELSE IF \E i \in 1..Len(names) : names[i].type # "str" THEN LRes(l, "ValueError")
  ELSE LRes([l EXCEPT !.class_names = Some([i \in 1..Len(names) |-> names[i].v])], NoErr)

\* the reverse index built by the loop that ends set_labels
ReverseIndex(labels, class_names) ==
  [c \in { PIndex(class_names, labels[i]) : i \in 1..Len(labels) } |->
     sorted(Flatten([i \in 1..Len(labels) |->
                       IF PIndex(class_names, labels[i]) = c THEN << i - 1 >> ELSE << >>]))]

set_labels(l, object_ids, labels_dict, class_names) ==
  IF \E k \in DOMAIN labels_dict : labels_dict[k].type # "int" THEN LRes(l, "ValueError")
  ELSE IF IsNone(object_ids) THEN LRes(l, "TypeError")
  ELSE IF ToSet(Val(object_ids)) \ DOMAIN labels_dict # {} THEN LRes(l, "ValueError")
  ELSE
    LET oids == Val(object_ids)
        labels == [i \in 1..Len(oids) |-> labels_dict[oids[i]].v]
        r == set_class_names([l EXCEPT !.labels = Some(labels)], class_names)
    IN IF r.err # NoErr THEN r
       ELSE IF \E i \in 1..Len(labels) : ~InRange(Val(r.lab.class_names), labels[i])
         THEN LRes(r.lab, "IndexError")
       ELSE LRes([r.lab EXCEPT !.object_indices_per_class =
                     Some(ReverseIndex(labels, Val(r.lab.class_names)))], NoErr)

----------------------------------------------------------------------------
(* class FeatureMatrix *)

FeatureMatrix ==
  [object_ids |-> None, feature_ids |-> None, feature_names |-> None,
   feature_matrix |-> None, root_dir |-> None, labeling_dict |-> None]

\* the outcome of a method: the instance afterwards, the exception raised (or NoErr),
\* and what happened to the list object held in feature_ids: "keep", "extend" (extended
\* in place, so every holder of that list sees it) or "rebind" (another list is held now)
Res(m, err) == [fm |-> m, err |-> err, bind |-> "keep"]

add_labeling(m, labeling) ==
  IF ~Truthy(m.object_ids) THEN Res(m, "ValueError")
  ELSE
    LET d == IF TruthyDict(m.labeling_dict) THEN Val(m.labeling_dict) ELSE EmptyDict
    IN Res([m EXCEPT !.labeling_dict = Some(DictUpdate(d, (labeling.name :> labeling)))], NoErr)

\* add_labels attaching the labeling whether or not set_labels accepted it
AddLabelsAttachAnyway(m, labeling_name, label_dict, class_names) ==
  LET r == set_labels(Labeling(labeling_name), m.object_ids, label_dict, class_names)
      a == add_labeling(m, r.lab)
  IN IF r.err # NoErr THEN [a EXCEPT !.err = r.err] ELSE a

add_labels(m, labeling_name, label_dict, class_names) ==
  LET r == set_labels(Labeling(labeling_name), m.object_ids, label_dict, class_names)
  IN IF r.err # NoErr THEN Res(m, r.err) ELSE add_labeling(m, r.lab)

PyInt(v) == [type |-> "int", v |-> v]
PyStr(v) == [type |-> "str", v |-> v]
\* the float v.0 and the unicode string u'v', values whose type is neither int nor str
PyFloat(v) == [type |-> "float", v |-> v]
PyUnicode(v) == [type |-> "unicode", v |-> v]

\* set_object_ids without the test for objects that are set already
SetObjectIdsAgain(m, object_ids) ==
  IF ~NoDup(object_ids) THEN Res(m, "ValueError")
  ELSE
    LET m1 == [m EXCEPT !.object_ids = Some(object_ids)]
        label_dict == DictZip(object_ids, [i \in 1..Len(object_ids) |-> PyInt(0)])
    IN add_labels(m1, "one_class", label_dict, << PyStr("all") >>)

set_object_ids(m, object_ids) ==
  IF ~IsNone(m.object_ids) THEN Res(m, "ValueError")
  ELSE IF ~NoDup(object_ids) THEN Res(m, "ValueError")
  ELSE
    LET m1 == [m EXCEPT !.object_ids = Some(object_ids)]
        label_dict == DictZip(object_ids, [i \in 1..Len(object_ids) |-> PyInt(0)])
    IN add_labels(m1, "one_class", label_dict, << PyStr("all") >>)

\* _check_features without the test of the column count
CheckFeaturesNoColumnTest(m, feature_ids, feature_matrix) ==
  IF ~NoDup(feature_ids) THEN "ValueError"
  ELSE IF ~IsNone(m.feature_ids) /\ ToSet(feature_ids) \cap ToSet(Val(m.feature_ids)) # {}
    THEN "ValueError"
  ELSE IF IsNone(m.object_ids) THEN "TypeError"
  ELSE IF feature_matrix.shape[1] # Len(Val(m.object_ids)) THEN "ValueError"
  ELSE NoErr

\* _check_features without the test for ids that are stored already
CheckFeaturesNoOverlapTest(m, feature_ids, feature_matrix) ==
  IF ~NoDup(feature_ids) THEN "ValueError"
  ELSE IF IsNone(m.object_ids) THEN "TypeError"
  ELSE IF feature_matrix.shape[1] # Len(Val(m.object_ids)) THEN "ValueError"
  ELSE IF feature_matrix.shape[2] # Len(feature_ids) THEN "ValueError"
  ELSE NoErr

_check_features(m, feature_ids, feature_matrix) ==
  IF ~NoDup(feature_ids) THEN "ValueError"
  ELSE IF ~IsNone(m.feature_ids) /\ ToSet(feature_ids) \cap ToSet(Val(m.feature_ids)) # {}
    THEN "ValueError"
  ELSE IF IsNone(m.object_ids) THEN "TypeError"
  ELSE IF feature_matrix.shape[1] # Len(Val(m.object_ids)) THEN "ValueError"
  ELSE IF feature_matrix.shape[2] # Len(feature_ids) THEN "ValueError"
  ELSE NoErr

\* feature_names is None (names default to the ids) or Some(list)
add_features(m, feature_ids, feature_matrix, feature_names) ==
  LET chk == _check_features(m, feature_ids, feature_matrix)
      ext == Truthy(m.feature_ids)
      feat_name_dict == IF IsNone(feature_names) THEN DictZip(feature_ids, feature_ids)
                        ELSE DictZip(feature_ids, Val(feature_names))
  IN IF chk # NoErr THEN Res(m, chk)
     ELSE IF ext THEN
       LET m1 == [m EXCEPT !.feature_ids = Some(Val(m.feature_ids) \o feature_ids)]
       IN IF IsNone(m.feature_matrix) \/ Val(m.feature_matrix).shape[1] # feature_matrix.shape[1]
            THEN [fm |-> m1, err |-> "ValueError", bind |-> "extend"]
          ELSE
            LET m2 == [m1 EXCEPT !.feature_matrix =
                                   Some(hstack(Val(m.feature_matrix), feature_matrix))]
            IN IF IsNone(m.feature_names)
                 THEN [fm |-> m2, err |-> "AttributeError", bind |-> "extend"]
               ELSE [fm |-> [m2 EXCEPT !.feature_names =
                                         Some(DictUpdate(Val(m.feature_names), feat_name_dict))],
                     err |-> NoErr, bind |-> "extend"]
     ELSE [fm |-> [m EXCEPT !.feature_ids = Some(feature_ids),
                            !.feature_matrix = Some(feature_matrix),
                            !.feature_names = Some(DictUpdate(EmptyDict, feat_name_dict))],
           err |-> NoErr, bind |-> "rebind"]

get_custom_features(m) ==
  IF ~Truthy(m.feature_ids) THEN EmptyDict
  ELSE
    LET ids == Val(m.feature_ids)
        cus == SelectSeq(ids, LAMBDA fid : Prefix(fid, Len(CUSTOM_FEAT_PRE)) = CUSTOM_FEAT_PRE)
    IN [p \in { Split(cus[i], "_")[1] : i \in 1..Len(cus) } |->
          SelectSeq(cus, LAMBDA fid : Split(fid, "_")[1] = p)]

\* '%s_%i' % ('%s%i' % (CUSTOM_FEAT_PRE, n), i)
CustomFeatId(n, i) == CUSTOM_FEAT_PRE \o FormatInt(n) \o << "_" >> \o FormatInt(i)
\* '%s %i - %i' % (CUSTOM_FEAT_NAME, n, i)
CustomFeatName(n, i) ==
  CUSTOM_FEAT_NAME \o << " " >> \o FormatInt(n) \o << " ", "-", " " >> \o FormatInt(i)

add_custom_features(m, feature_matrix) ==
  LET num_feat == feature_matrix.shape[2]
  IN IF IsNone(m.object_ids) THEN Res(m, "TypeError")
     ELSE IF feature_matrix.shape[1] # Len(Val(m.object_ids)) THEN Res(m, "ValueError")
     ELSE IF DOMAIN get_custom_features(m) # {}
       \* new_cust_feat_i is a slice of a list of ids, which '%i' refuses
       THEN Res(m, "TypeError")
     ELSE add_features(m, [i \in 1..num_feat |-> CustomFeatId(0, i - 1)], feature_matrix,
                       Some([i \in 1..num_feat |-> CustomFeatName(0, i - 1)]))

\* delete_feature_matrix dropping the matrix and keeping the ids
DeleteMatrixOnly(m) ==
  [fm |-> [m EXCEPT !.feature_matrix = None], err |-> NoErr, bind |-> "keep"]

delete_feature_matrix(m) ==
  [fm |-> [m EXCEPT !.feature_matrix = None, !.feature_ids = None], err |-> NoErr,
   bind |-> "rebind"]

\* merge comparing the object ids without their order
MergeAnyOrder(m, o) ==
  IF IsNone(m.object_ids) # IsNone(o.object_ids) THEN Res(m, "ValueError")
  ELSE IF ~IsNone(m.object_ids) /\ ToSet(Val(m.object_ids)) # ToSet(Val(o.object_ids))
    THEN Res(m, "ValueError")
  ELSE IF IsNone(o.feature_ids) THEN Res(m, "TypeError")
  ELSE add_features(m, Val(o.feature_ids), Val(o.feature_matrix), None)

merge(m, o) ==
  IF m.object_ids # o.object_ids THEN Res(m, "ValueError")
  ELSE IF IsNone(o.feature_ids) THEN Res(m, "TypeError")
  ELSE add_features(m, Val(o.feature_ids), Val(o.feature_matrix), None)

----------------------------------------------------------------------------
(* FeatureMatrix: slicing, standardization and the dataset export *)

\* the outcome of a query: the value returned and the exception raised (or NoErr)
Ret(v) == [ret |-> v, err |-> NoErr]
Raise(e) == [ret |-> None, err |-> e]

\* feature_ids is the argument: None or Some(list)
feature_indices(m, feature_ids) ==
  IF IsNone(feature_ids) THEN Raise("TypeError")
  ELSE IF Val(feature_ids) = << >> THEN Ret(<< >>)
  ELSE IF IsNone(m.feature_ids) THEN Raise("AttributeError")
  ELSE IF \E i \in 1..Len(Val(feature_ids)) : Val(feature_ids)[i] \notin ToSet(Val(m.feature_ids))
    THEN Raise("ValueError")
  ELSE Ret(sorted([i \in 1..Len(Val(feature_ids)) |->
                     ListIndex(Val(m.feature_ids), Val(feature_ids)[i])]))

\* self.labeling_dict[labeling_name]
LookupLabeling(m, labeling_name) ==
  IF IsNone(m.labeling_dict) THEN Raise("TypeError")
  ELSE IF labeling_name \notin DOMAIN Val(m.labeling_dict) THEN Raise("KeyError")
  ELSE Ret(Val(m.labeling_dict)[labeling_name])

object_indices(m, labeling_name, class_ids) ==
  LET l == LookupLabeling(m, labeling_name)
  IN IF l.err # NoErr THEN l
     ELSE LET per_class == Val(l.ret.object_indices_per_class)
          IN IF \E i \in 1..Len(class_ids) : class_ids[i] \notin DOMAIN per_class
               THEN Raise("KeyError")
             ELSE Ret(sorted(Flatten([i \in 1..Len(class_ids) |-> per_class[class_ids[i]]])))

\* class_indices without the sort
ClassIndicesInArgumentOrder(m, labeling_name, class_ids) ==
  LET l == LookupLabeling(m, labeling_name)
  IN IF l.err # NoErr THEN l
     ELSE IF \E i \in 1..Len(class_ids) : class_ids[i] \notin ToSet(Val(l.ret.class_names))
       THEN Raise("ValueError")
     ELSE Ret([i \in 1..Len(class_ids) |-> ListIndex(Val(l.ret.class_names), class_ids[i])])

class_indices(m, labeling_name, class_ids) ==
  LET l == LookupLabeling(m, labeling_name)
  IN IF l.err # NoErr THEN l
     ELSE IF \E i \in 1..Len(class_ids) : class_ids[i] \notin ToSet(Val(l.ret.class_names))
       THEN Raise("ValueError")
     ELSE Ret(sorted([i \in 1..Len(class_ids) |->
                        ListIndex(Val(l.ret.class_names), class_ids[i])]))

\* self.feature_matrix[:, feat_is][object_is, :] of a 2-D array
slice(mat, feat_is, object_is) ==
  Mat(Len(object_is), Len(feat_is),
      [i \in 1..Len(object_is) |-> [j \in 1..Len(feat_is) |-> mat.v[object_is[i] + 1][feat_is[j] + 1]]])

RECURSIVE Sum(_)
Sum(s) == IF s = << >> THEN 0 ELSE Head(s) + Sum(Tail(s))

\* numpy works in binary floating point, rounding every result to the nearest
\* representable value, ties to the even mantissa (IEEE 754).  The model keeps that
\* rule and carries MantBits bits of mantissa where float64 carries 53.  A float is
\* written as the whole number of units it holds, a unit being 2^-MantBits; it is
\* representable when that number has at most MantBits significant bits.
RECURSIVE Pow2(_)
Pow2(k) == IF k = 0 THEN 1 ELSE 2 * Pow2(k - 1)

Unit == Pow2(MantBits)

\* the float of a whole number given to numpy
ToFloat(v) == v * Unit

RECURSIVE BitLength(_)
BitLength(q) == IF q = 0 THEN 0 ELSE 1 + BitLength(q \div 2)

\* num/den units (num >= 0, den > 0) rounded to a float
RoundPos(num, den) ==
  LET k == BitLength(num \div den)
      ulp == IF k <= MantBits THEN 1 ELSE Pow2(k - MantBits)
      lo == (num \div (den * ulp)) * ulp
      rest2 == 2 * (num - lo * den)
  IN IF rest2 < den * ulp THEN lo
     ELSE IF rest2 > den * ulp THEN lo + ulp
     ELSE IF (lo \div ulp) % 2 = 0 THEN lo ELSE lo + ulp

RoundTo(num, den) == IF num >= 0 THEN RoundPos(num, den) ELSE 0 - RoundPos(0 - num, den)

FAdd(a, b) == RoundTo(a + b, 1)
FSub(a, b) == RoundTo(a - b, 1)
FMul(a, b) == RoundTo(a * b, Unit)
\* a / b for b > 0
FDiv(a, b) == RoundTo(a * Unit, b)

\* the largest r in lo..hi with r * r <= n
RECURSIVE ISqrt(_, _, _)
ISqrt(n, lo, hi) ==
  IF lo >= hi THEN lo
  ELSE LET mid == (lo + hi + 1) \div 2
       IN IF mid * mid <= n THEN ISqrt(n, mid, hi) ELSE ISqrt(n, lo, mid - 1)

\* numpy.sqrt(a), a >= 0: the square root of a * Unit square units, rounded
FSqrt(a) ==
  LET n == a * Unit
      r == ISqrt(n, 0, Min(n, 46340))
      k == BitLength(r)
      ulp == IF k <= MantBits THEN 1 ELSE Pow2(k - MantBits)
      lo == (r \div ulp) * ulp
      \* sqrt(n) against the midpoint lo + ulp/2, both doubled and squared; it is never
      \* on the midpoint, whose square is no whole number or has too many bits
  IN IF 4 * n < (2 * lo + ulp) * (2 * lo + ulp) THEN lo ELSE lo + ulp

\* numpy.add.reduce along a column: the values are added one after the other
RECURSIVE FSum(_)
FSum(s) == IF Len(s) = 1 THEN s[1] ELSE FAdd(FSum(SubSeq(s, 1, Len(s) - 1)), s[Len(s)])

\* numpy.mean of a column of n >= 1 floats
FMean(s) == FDiv(FSum(s), ToFloat(Len(s)))

\* numpy.std of a column: sqrt(mean(abs(x - x.mean())**2))
FStd(s) ==
  LET m == FMean(s)
      d == [i \in 1..Len(s) |-> FSub(s[i], m)]
  IN FSqrt(FMean([i \in 1..Len(s) |-> FMul(d[i], d[i])]))

\* the array returned holds floats; with no rows mean and std are nan and there is
\* nothing to fill
_standardize(mat) ==
  LET n == mat.shape[1]
      col(j) == [i \in 1..n |-> ToFloat(mat.v[i][j])]
      mean(j) == FMean(col(j))
      std(j) == IF FStd(col(j)) = 0 THEN ToFloat(1) ELSE FStd(col(j))
  IN Mat(n, mat.shape[2],
         [i \in 1..n |-> [j \in 1..mat.shape[2] |-> FDiv(FSub(col(j)[i], mean(j)), std(j))]])

\* get_dataset without the renumbering of the targets
\* Labeling.get_obj_is_per_class returning the whole reverse index whatever is asked
GetObjIsPerClassUnfiltered(l, object_is) == Ret(Val(l.object_indices_per_class))

\* the loop of Labeling.get_obj_is_per_class over the indices that are left, obj_is
\* being the dict built so far
RECURSIVE ObjIsFrom(_, _, _)
ObjIsFrom(l, object_is, obj_is) ==
  IF object_is = << >> THEN Ret(obj_is)
  ELSE LET object_i == Head(object_is)
       IN IF ~InRange(Val(l.labels), object_i) THEN Raise("IndexError")
          ELSE IF ~InRange(Val(l.class_names), PIndex(Val(l.labels), object_i))
            THEN Raise("IndexError")
          ELSE LET cl == PIndex(Val(l.class_names), PIndex(Val(l.labels), object_i))
                   listed == IF cl \in DOMAIN obj_is THEN obj_is[cl] ELSE << >>
               IN ObjIsFrom(l, Tail(object_is),
                            DictUpdate(obj_is, cl :> Append(listed, object_i)))

\* object_is is None or Some(list of indices)
get_obj_is_per_class(l, object_is) ==
  IF IsNone(object_is) THEN Ret(Val(l.object_indices_per_class))
  ELSE ObjIsFrom(l, Val(object_is), EmptyDict)

KeepTargets(target, class_is) == Ret(target)

\* target_map = dict(zip(class_is, range(len(class_is)))); [target_map[t] for t in target]
MapTargets(target, class_is) ==
  IF \E i \in 1..Len(target) : target[i] \notin ToSet(class_is) THEN Raise("KeyError")
  ELSE LET target_map == DictZip(class_is, [i \in 1..Len(class_is) |-> i - 1])
       IN Ret([i \in 1..Len(target) |-> target_map[target[i]]])

Dataset(fmat, sample_names, feature_names, target, target_names) ==
  Ret([fm |-> fmat, sample_names |-> sample_names, feature_names |-> feature_names,
       target |-> target, target_names |-> target_names])

\* feat_ids, labeling_name and class_ids are None or Some(value); of the tuple returned,
\* fm and feature_names are None or Some(value) too
get_dataset(m, feat_ids, labeling_name, class_ids, standardized) ==
  LET name == IF IsNone(labeling_name) THEN "one_class" ELSE Val(labeling_name)
      l == LookupLabeling(m, name)
  IN IF l.err # NoErr THEN l
     ELSE IF Truthy(feat_ids) \/ Truthy(class_ids) THEN
       LET labeling == l.ret
           fids == IF Truthy(feat_ids) THEN feat_ids ELSE m.feature_ids
           cids == IF Truthy(class_ids) THEN Val(class_ids) ELSE Val(labeling.class_names)
           feat_is == feature_indices(m, fids)
           object_is == object_indices(m, name, cids)
           class_is == class_indices(m, name, cids)
       IN IF feat_is.err # NoErr THEN feat_is
          ELSE IF object_is.err # NoErr THEN object_is
          ELSE IF class_is.err # NoErr THEN class_is
          ELSE IF IsNone(m.feature_matrix) THEN Raise("TypeError")
          ELSE
            LET sl == slice(Val(m.feature_matrix), feat_is.ret, object_is.ret)
                target == [i \in 1..Len(object_is.ret) |->
                             Val(labeling.labels)[object_is.ret[i] + 1]]
                mapped == MapTargets(target, class_is.ret)
            IN IF mapped.err # NoErr THEN mapped
               ELSE Dataset(Some(IF standardized THEN _standardize(sl) ELSE sl),
                            [i \in 1..Len(object_is.ret) |-> Val(m.object_ids)[object_is.ret[i] + 1]],
                            Some([i \in 1..Len(feat_is.ret) |->
                                    Val(m.feature_ids)[feat_is.ret[i] + 1]]),
                            mapped.ret,
                            [i \in 1..Len(class_is.ret) |->
                               Val(labeling.class_names)[class_is.ret[i] + 1]])
     ELSE IF standardized /\ IsNone(m.feature_matrix) THEN Raise("TypeError")
     ELSE Dataset(IF standardized THEN Some(_standardize(Val(m.feature_matrix)))
                  ELSE m.feature_matrix,
                  Val(m.object_ids), m.feature_ids, Val(l.ret.labels), Val(l.ret.class_names))

----------------------------------------------------------------------------
(* FeatureMatrix: persistence *)

\* The directory root_dir: each file is None (absent) or Some(content).  A file of ids
\* or names is the list of its lines, feature_matrix.mat the list of its lines, each
\* the list of the numbers on it, and labels is None (no labels directory) or the
\* dict {labeling name: content of <name>.txt}.
NoDisk ==
  [object_ids_txt |-> None, feature_ids_txt |-> None, feature_names_txt |-> None,
   feature_matrix_mat |-> None, labels |-> None]

SRes(d, err) == [disk |-> d, err |-> err]

set_root_dir(m, root_dir) == Res([m EXCEPT !.root_dir = Some(root_dir)], NoErr)

\* file_io.write_ids / file_io.write_names: one entry per line
write_ids(ids) == ids
\* file_io.read_ids / file_io.read_names
read_ids(lines) == lines

\* file_io.write_labeling(f, object_ids, labels, class_names)
write_labeling(object_ids, labels, class_names) ==
  [object_ids |-> object_ids, labels |-> labels, class_names |-> class_names]
\* file_io.read_labeling(f): (label_dict, class_names)
read_labeling(f) ==
  [label_dict |-> DictZip(f.object_ids, [i \in 1..Len(f.labels) |-> PyInt(f.labels[i])]),
   class_names |-> [i \in 1..Len(f.class_names) |-> PyStr(f.class_names[i])]]

\* numpy.savetxt(f, X) of a 2-D array: one line per row, '%.18e' per value, which
\* gives every float back exactly; the shape is not written
savetxt(mat) == mat.v

\* numpy.loadtxt(f): lines without a value are skipped, the rows found make a 2-D
\* array and numpy.squeeze drops every dimension of length 1.  The results a numpy
\* release can give: a file without data is an empty 1-D array (with a warning) or,
\* in older releases, an IOError.
loadtxt(lines) ==
  LET rows == SelectSeq(lines, LAMBDA l : Len(l) > 0)
      n == Len(rows)
  IN IF n = 0 THEN { Ret([shape |-> << 0 >>, v |-> << >>]), Raise("IOError") }
     ELSE LET c == Len(rows[1])
          IN { Ret([shape |-> CASE n = 1 /\ c = 1 -> << >>
                                [] n = 1 -> << c >>
                                [] c = 1 -> << n >>
                                [] OTHER -> << n, c >>,
                    v |-> rows]) }

\* X.reshape((n, 1)) of a 1-D array of n values, however loadtxt laid them out
reshape_column(a) ==
  LET flat == Flatten(a.v)
  IN Mat(Len(flat), 1, [i \in 1..Len(flat) |-> << flat[i] >>])

_store_object_ids(m, d) ==
  IF Truthy(m.object_ids) THEN SRes([d EXCEPT !.object_ids_txt = Some(write_ids(Val(m.object_ids)))], NoErr)
  ELSE SRes(d, NoErr)

_store_feature_ids(m, d) ==
  IF ~IsNone(m.feature_ids)
    THEN SRes([d EXCEPT !.feature_ids_txt = Some(write_ids(Val(m.feature_ids)))], NoErr)
  ELSE SRes([d EXCEPT !.feature_ids_txt = None], NoErr)

_store_feature_names(m, d) ==
  IF ~IsNone(m.feature_names) THEN
    IF IsNone(m.feature_ids) THEN SRes(d, "TypeError")
    ELSE IF \E i \in 1..Len(Val(m.feature_ids)) :
              Val(m.feature_ids)[i] \notin DOMAIN Val(m.feature_names)
      THEN SRes(d, "KeyError")
    ELSE SRes([d EXCEPT !.feature_names_txt =
                 Some(write_ids([i \in 1..Len(Val(m.feature_ids)) |->
                                   Val(m.feature_names)[Val(m.feature_ids)[i]]]))], NoErr)
  ELSE SRes([d EXCEPT !.feature_names_txt = None], NoErr)

_store_feature_matrix(m, d) ==
  IF ~IsNone(m.feature_matrix)
    THEN SRes([d EXCEPT !.feature_matrix_mat = Some(savetxt(Val(m.feature_matrix)))], NoErr)
  ELSE SRes([d EXCEPT !.feature_matrix_mat = None], NoErr)

\* Labeling.save for every labeling, into the labels directory
_store_labels(m, d) ==
  IF TruthyDict(m.labeling_dict) THEN
    LET old == IF IsNone(d.labels) THEN EmptyDict ELSE Val(d.labels)
        new == [k \in DOMAIN Val(m.labeling_dict) |->
                  LET l == Val(m.labeling_dict)[k]
                  IN write_labeling(Val(m.object_ids), Val(l.labels), Val(l.class_names))]
    IN SRes([d EXCEPT !.labels = Some(DictUpdate(old, new))], NoErr)
  ELSE SRes(d, NoErr)

\* the five stores run in this order; an exception ends save and keeps what the
\* stores before it wrote
save(m, d) ==
  IF IsNone(m.root_dir) THEN SRes(d, "ValueError")
  ELSE LET r1 == _store_object_ids(m, d)
           r2 == _store_feature_ids(m, r1.disk)
           r3 == _store_feature_names(m, r2.disk)
           r4 == _store_feature_matrix(m, r3.disk)
       IN IF r3.err # NoErr THEN r3 ELSE _store_labels(m, r4.disk)

_load_object_ids(m, d) ==
  IF ~IsNone(d.object_ids_txt) THEN set_object_ids(m, read_ids(Val(d.object_ids_txt)))
  ELSE Res(m, NoErr)

_load_feature_ids(m, d) ==
  IF ~IsNone(d.feature_ids_txt)
    THEN Res([m EXCEPT !.feature_ids = Some(read_ids(Val(d.feature_ids_txt)))], NoErr)
  ELSE Res(m, NoErr)

\* _load_feature_names skipping the names when no feature ids are loaded
LoadFeatureNamesIfIds(m, d) ==
  IF ~IsNone(d.feature_names_txt) /\ ~IsNone(m.feature_ids)
    THEN Res([m EXCEPT !.feature_names =
                Some(DictZip(Val(m.feature_ids), read_ids(Val(d.feature_names_txt))))], NoErr)
  ELSE Res(m, NoErr)

_load_feature_names(m, d) ==
  IF ~IsNone(d.feature_names_txt) THEN
    IF IsNone(m.feature_ids) THEN Res(m, "TypeError")
    ELSE Res([m EXCEPT !.feature_names =
                Some(DictZip(Val(m.feature_ids), read_ids(Val(d.feature_names_txt))))], NoErr)
  ELSE Res(m, NoErr)

\* the outcomes of _load_feature_matrix, one for each result loadtxt can give
_load_feature_matrix(m, d) ==
  IF ~IsNone(d.feature_matrix_mat) THEN
    { IF a.err # NoErr THEN Res(m, a.err)
      ELSE Res([m EXCEPT !.feature_matrix =
                  Some(IF Len(a.ret.shape) = 1 THEN reshape_column(a.ret) ELSE a.ret)], NoErr) :
      a \in loadtxt(Val(d.feature_matrix_mat)) }
  ELSE { Res(m, NoErr) }

\* the labelings of the instance after the files `names` were loaded
WithLabelings(m, d, names) ==
  LET old == IF TruthyDict(m.labeling_dict) THEN Val(m.labeling_dict) ELSE EmptyDict
      new == [k \in names |->
                LET f == read_labeling(Val(d.labels)[k])
                IN set_labels(Labeling(k), m.object_ids, f.label_dict, f.class_names).lab]
  IN IF names = {} THEN m ELSE [m EXCEPT !.labeling_dict = Some(DictUpdate(old, new))]

\* the outcomes of _load_labels: glob gives the files in no fixed order, so when a
\* file is refused any of the others may have been attached before it
_load_labels(m, d) ==
  IF IsNone(d.labels) THEN { Res(m, NoErr) }
  ELSE
    LET all == DOMAIN Val(d.labels)
        errOf(k) == LET f == read_labeling(Val(d.labels)[k])
                        r == set_labels(Labeling(k), m.object_ids, f.label_dict, f.class_names)
                    IN IF r.err # NoErr THEN r.err
                       ELSE IF ~Truthy(m.object_ids) THEN "ValueError" ELSE NoErr
        bad == { k \in all : errOf(k) # NoErr }
    IN IF bad = {} THEN { Res(WithLabelings(m, d, all), NoErr) }
       ELSE { Res(WithLabelings(m, d, done), errOf(k)) : k \in bad, done \in SUBSET (all \ bad) }

\* the outcomes of load on the instance m
load(m, d) ==
  IF IsNone(m.root_dir) THEN { Res(m, "ValueError") }
  ELSE LET r1 == _load_object_ids(m, d)
           r2 == _load_feature_ids(r1.fm, d)
           r3 == _load_feature_names(r2.fm, d)
       IN IF r1.err # NoErr THEN { Res(r1.fm, r1.err) }
          ELSE IF r3.err # NoErr THEN { Res(r3.fm, r3.err) }
          ELSE UNION { IF r4.err # NoErr THEN { Res(r4.fm, r4.err) } ELSE _load_labels(r4.fm, d) :
                       r4 \in _load_feature_matrix(r3.fm, d) }

----------------------------------------------------------------------------
(* featext: FeatureCategory and FeatureExtraction *)

\* the categories of the two tables the model carries, with their param_types
PROTEIN_FEATURE_CATEGORIES ==
  (<< "l", "e", "n" >> :> << >>)
    @@ (<< "a", "a", "c" >> :> << "int" >>)
    @@ (<< "c", "t", "d" >> :> << "str" >>)
    @@ (<< "t", "e", "r", "a", "a", "c" >> :> << "str", "int" >>)

MUTATION_FEATURE_CATEGORIES ==
  (<< "p", "f", "a", "m" >> :> << >>)
    @@ (<< "c", "o", "d", "o", "n", "e", "n", "v" >> :> << "int" >>)

Digits == { "0", "1", "2", "3", "4", "5", "6", "7", "8", "9" }

\* t(p) for a declared type t and a token p: int('') and int of a token that is no
\* number raise ValueError, str(p) is p
ParseError(t, p) == t = "int" /\ (p = << >> \/ \E i \in 1..Len(p) : p[i] \notin Digits)
Parsed(t, p) == [type |-> t, token |-> p]

\* FeatureCategory.param_values of a category with the given param_types
param_values(param_types, param_id) ==
  LET param_tokens == Split(param_id, "-")
  IN IF Len(param_tokens) = 1 /\ param_tokens[1] = << >> THEN Ret(<< >>)
     ELSE IF Len(param_tokens) # Len(param_types) THEN Raise("AssertionError")
     ELSE IF \E i \in 1..Len(param_tokens) : ParseError(param_types[i], param_tokens[i])
       THEN Raise("ValueError")
     ELSE Ret([i \in 1..Len(param_tokens) |-> Parsed(param_types[i], param_tokens[i])])

\* the parsing that opens calculate_protein_features and calculate_missense_features:
\* the category id, and the arguments parsed from the parameters
ParseFeatcatId(categories, featcat_id) ==
  LET parts == Split(featcat_id, "_")
      has == \E i \in 1..Len(featcat_id) : featcat_id[i] = "_"
      fc_id == IF has THEN parts[1] ELSE featcat_id
      param_list == IF has THEN Split(parts[2], "-") ELSE << >>
  IN IF has /\ Len(parts) # 2 THEN Raise("ValueError")
     ELSE IF fc_id \notin DOMAIN categories THEN Raise("KeyError")
     ELSE LET param_types == categories[fc_id]
          IN IF Len(param_list) # Len(param_types) THEN Raise("AssertionError")
             ELSE IF \E i \in 1..Len(param_list) : ParseError(param_types[i], param_list[i])
               THEN Raise("ValueError")
             ELSE Ret([fc_id |-> fc_id,
                       args |-> [i \in 1..Len(param_list) |-> Parsed(param_types[i], param_list[i])]])

\* feature_func(model_object, *args, feature_ids=True): the sub-feature ids and names
\* of a category, two for aac and one for the others
DescribeIds(fc_id) ==
  IF fc_id = << "a", "a", "c" >> THEN << << "A" >>, << "C" >> >> ELSE << << "v" >> >>
DescribeNames(fc_id) ==
  [i \in 1..Len(DescribeIds(fc_id)) |-> << "n", ":" >> \o DescribeIds(fc_id)[i]]

\* feature_func(o, *args): the values of the object at position index
ComputeRow(fc_id, index) == [j \in 1..Len(DescribeIds(fc_id)) |-> 10 * index + j]

\* ProteinDataSet: the proteins and the mutations it holds, by their ids
ProteinDataSet == [proteins |-> << >>, mutations |-> << >>]

FeatureExtraction ==
  [fm_protein |-> FeatureMatrix, fm_missense |-> FeatureMatrix, protein_data_set |-> ProteinDataSet]

ERes(e, err) == [fe |-> e, err |-> err]

set_protein_ids(e, protein_ids) ==
  ERes([e EXCEPT !.protein_data_set.proteins = protein_ids,
                 !.fm_protein.object_ids = Some(protein_ids)], NoErr)

\* mut_ids are the ids of the mutations the file holds
load_mutation_data(e, mut_ids) ==
  ERes([e EXCEPT !.protein_data_set.mutations = mut_ids,
                 !.fm_missense.object_ids = Some(mut_ids)], NoErr)

\* the matrix numpy.empty((rows, cols)) after the loop filled one row per object: a
\* row the loop does not reach keeps what the memory held, `garbage`
FilledRows(fc_id, rows, objects, garbage) ==
  Mat(rows, Len(DescribeIds(fc_id)),
      [i \in 1..rows |-> IF i <= Len(objects) THEN ComputeRow(fc_id, i - 1)
                         ELSE [j \in 1..Len(DescribeIds(fc_id)) |-> garbage]])

\* what follows the first assert in both calculate_ functions, for the matrix
\* `target` of e that is appended to and the objects the rows are computed for
CalculateInto(e, target, categories, objects, featcat_id, garbage) ==
  LET parsed == ParseFeatcatId(categories, featcat_id)
  IN IF parsed.err # NoErr THEN ERes(e, parsed.err)
     ELSE
       LET fc_id == parsed.ret.fc_id
           ids == DescribeIds(fc_id)
           feat_ids == [i \in 1..Len(ids) |-> featcat_id \o << "_" >> \o ids[i]]
       IN IF IsNone(e[target].object_ids) THEN ERes(e, "TypeError")
          ELSE IF Len(objects) > Len(Val(e[target].object_ids)) THEN ERes(e, "IndexError")
          ELSE
            LET r == add_features(e[target], feat_ids,
                                  FilledRows(fc_id, Len(Val(e[target].object_ids)), objects, garbage),
                                  Some(DescribeNames(fc_id)))
            IN ERes([e EXCEPT ![target] = r.fm], r.err)

calculate_protein_features(e, featcat_id, garbage) ==
  IF ~Truthy(e.fm_protein.object_ids) THEN ERes(e, "AssertionError")
  ELSE CalculateInto(e, "fm_protein", PROTEIN_FEATURE_CATEGORIES,
                     e.protein_data_set.proteins, featcat_id, garbage)

calculate_missense_features(e, featcat_id, garbage) ==
  IF ~Truthy(e.fm_protein.object_ids) THEN ERes(e, "AssertionError")
  ELSE CalculateInto(e, "fm_missense", MUTATION_FEATURE_CATEGORIES,
                     e.protein_data_set.mutations, featcat_id, garbage)

\* '_'.join(tokens)
RECURSIVE Join(_)
Join(tokens) ==
  IF Len(tokens) = 1 THEN tokens[1] ELSE tokens[1] \o << "_" >> \o Join(Tail(tokens))

\* the loop of available_protein_featcat_ids over the ids that are left, featcat_ids
\* being the set built so far
RECURSIVE AvailableFrom(_, _)
AvailableFrom(ids, featcat_ids) ==
  IF ids = << >> THEN featcat_ids
  ELSE LET parts == Split(Head(ids), "_")
       IN AvailableFrom(Tail(ids),
                        IF Len(parts) = 2 THEN featcat_ids \cup { parts[1] }
                        ELSE IF Len(parts) = 3 THEN featcat_ids \cup { Join(SubSeq(parts, 1, 2)) }
                        ELSE featcat_ids)

available_protein_featcat_ids(e) ==
  IF IsNone(e.fm_protein.feature_ids) THEN Raise("TypeError")
  ELSE Ret(AvailableFrom(Val(e.fm_protein.feature_ids), {}))

\* d.setdefault(cat, {}).setdefault(params_str, []).append(feat_id)
FileUnder(d, cat, params_str, feat_id) ==
  LET inner == IF cat \in DOMAIN d THEN d[cat] ELSE EmptyDict
      listed == IF params_str \in DOMAIN inner THEN inner[params_str] ELSE << >>
  IN DictUpdate(d, cat :> DictUpdate(inner, params_str :> Append(listed, feat_id)))

\* the loop of a categorized_protein_feature_ids that files every id under ''
RECURSIVE CategorizedFromNoParams(_, _)
CategorizedFromNoParams(ids, cat_feat_dict) ==
  IF ids = << >> THEN Ret(cat_feat_dict)
  ELSE LET tokens == Split(Head(ids), "_")
       IN IF Len(tokens) \in { 2, 3 }
            THEN CategorizedFromNoParams(Tail(ids),
                                         FileUnder(cat_feat_dict, tokens[1], << >>, Head(ids)))
          ELSE Raise("ValueError")

CategorizedWithoutParams(e) ==
  IF IsNone(e.fm_protein.feature_ids) THEN Raise("TypeError")
  ELSE CategorizedFromNoParams(Val(e.fm_protein.feature_ids), EmptyDict)

\* the loop of categorized_protein_feature_ids over the ids that are left; unpacking
\* tokens into three names raises ValueError unless there are three
RECURSIVE CategorizedFrom(_, _)
CategorizedFrom(ids, cat_feat_dict) ==
  IF ids = << >> THEN Ret(cat_feat_dict)
  ELSE LET tokens == Split(Head(ids), "_")
       IN IF Len(tokens) = 2
            THEN CategorizedFrom(Tail(ids),
                                 FileUnder(cat_feat_dict, tokens[1], << >>, Head(ids)))
          ELSE IF Len(tokens) = 3
            THEN CategorizedFrom(Tail(ids),
                                 FileUnder(cat_feat_dict, tokens[1], tokens[2], Head(ids)))
          ELSE Raise("ValueError")

categorized_protein_feature_ids(e) ==
  IF IsNone(e.fm_protein.feature_ids) THEN Raise("TypeError")
  ELSE CategorizedFrom(Val(e.fm_protein.feature_ids), EmptyDict)

----------------------------------------------------------------------------
(* The inputs the calls are explored with *)

ObjectIdLists == { << >>, << "p1", "p2" >>, << "p1", "p1" >> }

FeatureIds == { << "f", "1" >>, << "f", "2" >> }


RECURSIVE SeqsUpTo(_, _)
SeqsUpTo(S, n) ==
  IF n = 0 THEN { << >> }
  ELSE LET shorter == SeqsUpTo(S, n - 1)
       IN shorter \cup { Append(s, x) : s \in shorter, x \in S }

FeatureIdLists == SeqsUpTo(FeatureIds, MaxIds)

\* an r x c array filled row by row with k, k+1, ...
Filled(r, c, k) == Mat(r, c, [i \in 1..r |-> [j \in 1..c |-> k + (i - 1) * c + (j - 1)]])

\* the r x c array supplied with a list of ids: its values tell the blocks apart
\* (they start at 10 for a list led by f1, at 20 for one led by f2, at 0 otherwise)
MatrixInput(r, c, ids) ==
  Filled(r, c, IF ids = << >> THEN 0
               ELSE IF ids[1] = << "f", "1" >> THEN 10
               ELSE IF ids[1] = << "f", "2" >> THEN 20 ELSE 0)

\* a display name for a feature id
NameOf(fid) == << "n", ":" >> \o fid

\* the feature_names arguments tried with a list of ids: omitted, one name per id, or
\* a list that is one name short
NameLists(ids) ==
  { None, Some([i \in 1..Len(ids) |-> NameOf(ids[i])]) }
    \cup (IF Len(ids) >= 1 THEN { Some([i \in 1..(Len(ids) - 1) |-> NameOf(ids[i])]) } ELSE {})

\* the label maps tried on three objects: the codes of the objects in object order
LabelCodeLists == { << 0, 1, 0 >>, << 1, 0, 1 >>, << 0, 0, 0 >>, << 2, 0, 2 >>, << 0, -1, 0 >> }

\* the dict {object id: code}
LabelDict(object_ids, codes) == DictZip(object_ids, [i \in 1..Len(codes) |-> PyInt(codes[i])])

\* the label maps tried on the objects: a code for each, and maps with a value that is
\* not an int, without the last object, and with an entry for an object that is not bound
LabelDicts(object_ids) ==
  { LabelDict(object_ids, codes) : codes \in LabelCodeLists }
    \cup { [LabelDict(object_ids, << 0, 1, 0 >>) EXCEPT ![object_ids[1]] = PyFloat(1)],
           LabelDict(SubSeq(object_ids, 1, Len(object_ids) - 1), << 0, 1, 0 >>),
           LabelDict(object_ids \o << "p9" >>, << 0, 1, 0, 5 >>) }

ClassNames == { "A", "B" }

\* the class name lists tried
ClassNameLists ==
  { [i \in 1..Len(s) |-> PyStr(s[i])] : s \in SeqsUpTo(ClassNames, MaxClasses) }

\* and one that holds a name that is not a str
ClassNameArgs == ClassNameLists \cup { << PyStr("A"), PyUnicode("B") >> }

ClassIdLists == SeqsUpTo(ClassNames, MaxClassIds)

\* len(o) of a list-or-None, 0 standing in for None
NumOf(o) == IF IsNone(o) THEN 0 ELSE Len(Val(o))

\* FeatureMatrix instances handed to merge as `other`: objects bound, then at most
\* one block of features added
OtherInstances ==
  LET bound == { set_object_ids(FeatureMatrix, L).fm : L \in { << "p1", "p2" >>, << "p2", "p1" >> } }
  IN bound \cup
     { add_features(m, ids, Filled(2, Len(ids), 30), None).fm :
         m \in bound, ids \in { << << "f", "1" >> >>, << << "f", "2" >>, << "f", "1" >> >> } }

----------------------------------------------------------------------------
(* State *)

\* `last` holds the call in progress: its arguments and its outcome, and `pre` the
\* instance as it was when the call was made; between calls `last` is NoCall
NoCall == [op |-> "none", err |-> NoErr]
Idle == last = NoCall

Init ==
  /\ fm = FeatureMatrix
  /\ other = None
  /\ alias = "none"
  /\ caller_ids = None
  /\ disk = NoDisk
  /\ loaded = None
  /\ saved = None
  /\ last = NoCall
  /\ pre = FeatureMatrix
  /\ blocks = << >>
  /\ fe = FeatureExtraction

\* what a call on fm with outcome r does to the lists that fm.feature_ids is shared with:
\* `added` are the ids an in-place extension appends, `holder` who else holds the list
\* that a rebinding installs
Sharing(r, added, holder) ==
  /\ alias' = CASE r.bind = "rebind" -> holder [] OTHER -> alias
  /\ caller_ids' = CASE r.bind = "rebind" -> (IF holder = "caller" THEN r.fm.feature_ids ELSE None)
                     [] r.bind = "extend" /\ alias = "caller" -> Some(Val(caller_ids) \o added)
                     [] OTHER -> caller_ids
  /\ other' = CASE r.bind = "extend" /\ alias = "other" ->
                     Some([Val(other) EXCEPT !.feature_ids = Some(Val(@) \o added)])
                [] r.bind = "rebind" -> None
                [] OTHER -> other

\* the blocks add_features accepted since the matrix was created or its features were
\* deleted, in the order they were added
Blocks(r, ids, mat) ==
  blocks' = IF r.err = NoErr THEN Append(blocks, [ids |-> ids, mat |-> mat]) ELSE blocks

\* the calls explored: those that keep the matrix within MaxCols columns and MaxBlocks blocks
Fits(r, n) ==
  /\ NumOf(fm.feature_ids) + n <= MaxCols
  /\ r.err = NoErr => Len(blocks) < MaxBlocks

SetObjectIds(object_ids) ==
  LET r == set_object_ids(fm, object_ids)
  IN /\ Idle
     /\ fm' = r.fm
     /\ pre' = fm
     /\ last' = [op |-> "set_object_ids", object_ids |-> object_ids, err |-> r.err]
     /\ UNCHANGED << fe, other, alias, caller_ids, disk, loaded, saved, blocks >>

AddFeatures(feature_ids, feature_matrix, feature_names) ==
  LET r == add_features(fm, feature_ids, feature_matrix, feature_names)
  IN /\ Idle
     /\ Fits(r, Len(feature_ids))
     /\ fm' = r.fm
     /\ pre' = fm
     /\ last' = [op |-> "add_features", feature_ids |-> feature_ids,
                 feature_matrix |-> feature_matrix, feature_names |-> feature_names,
                 err |-> r.err]
     /\ Sharing(r, feature_ids, "caller")
     /\ Blocks(r, feature_ids, feature_matrix)
     /\ UNCHANGED << fe, disk, loaded, saved >>

AddCustomFeatures(feature_matrix) ==
  LET r == add_custom_features(fm, feature_matrix)
      ids == [i \in 1..feature_matrix.shape[2] |-> CustomFeatId(0, i - 1)]
  IN /\ Idle
     /\ Fits(r, feature_matrix.shape[2])
     /\ fm' = r.fm
     /\ pre' = fm
     /\ last' = [op |-> "add_custom_features", feature_matrix |-> feature_matrix, err |-> r.err]
     /\ Sharing(r, ids, "none")
     /\ Blocks(r, ids, feature_matrix)
     /\ UNCHANGED << fe, disk, loaded, saved >>

DeleteFeatureMatrix ==
  LET r == delete_feature_matrix(fm)
  IN /\ Idle
     /\ fm' = r.fm
     /\ pre' = fm
     /\ last' = [op |-> "delete_feature_matrix", err |-> r.err]
     /\ Sharing(r, << >>, "none")
     /\ blocks' = << >>
     /\ UNCHANGED << fe, disk, loaded, saved >>

\* self.merge(o) with o an instance not handed to merge before
Merge(o) ==
  LET r == merge(fm, o)
  IN /\ Idle
     /\ Fits(r, NumOf(o.feature_ids))
     /\ fm' = r.fm
     /\ pre' = fm
     /\ last' = [op |-> "merge", other |-> o, err |-> r.err]
     /\ alias' = CASE r.bind = "rebind" -> "other"
                   [] alias = "other" -> "none"
                   [] OTHER -> alias
     /\ caller_ids' = CASE r.bind = "rebind" -> None
                        [] r.bind = "extend" /\ alias = "caller" ->
                             Some(Val(caller_ids) \o Val(o.feature_ids))
                        [] OTHER -> caller_ids
     /\ other' = IF r.bind = "rebind" THEN Some(o) ELSE None
     /\ Blocks(r, IF IsNone(o.feature_ids) THEN << >> ELSE Val(o.feature_ids),
                   IF IsNone(o.feature_matrix) THEN None ELSE Val(o.feature_matrix))
     /\ UNCHANGED << fe, disk, loaded, saved >>

AddLabels(labeling_name, label_dict, class_names) ==
  LET r == add_labels(fm, labeling_name, label_dict, class_names)
  IN /\ Idle
     /\ fm' = r.fm
     /\ pre' = fm
     /\ last' = [op |-> "add_labels", labeling_name |-> labeling_name,
                 label_dict |-> label_dict, class_names |-> class_names, err |-> r.err]
     /\ UNCHANGED << fe, other, alias, caller_ids, disk, loaded, saved, blocks >>

GetDataset(feat_ids, labeling_name, class_ids, standardized) ==
  LET r == get_dataset(fm, feat_ids, labeling_name, class_ids, standardized)
  IN /\ Idle
     /\ pre' = fm
     /\ last' = [op |-> "get_dataset", feat_ids |-> feat_ids, labeling_name |-> labeling_name,
                 class_ids |-> class_ids, standardized |-> standardized,
                 err |-> r.err, ret |-> r.ret]
     /\ UNCHANGED << fe, fm, other, alias, caller_ids, disk, loaded, saved, blocks >>

ObjectIndices(labeling_name, class_ids) ==
  LET r == object_indices(fm, labeling_name, class_ids)
  IN /\ Idle
     /\ pre' = fm
     /\ last' = [op |-> "object_indices", labeling_name |-> labeling_name,
                 class_ids |-> class_ids, err |-> r.err, ret |-> r.ret]
     /\ UNCHANGED << fe, fm, other, alias, caller_ids, disk, loaded, saved, blocks >>

FeatureIndices(feature_ids) ==
  LET r == feature_indices(fm, Some(feature_ids))
  IN /\ Idle
     /\ pre' = fm
     /\ last' = [op |-> "feature_indices", feature_ids |-> feature_ids,
                 err |-> r.err, ret |-> r.ret]
     /\ UNCHANGED << fe, fm, other, alias, caller_ids, disk, loaded, saved, blocks >>

ClassIndices(labeling_name, class_ids) ==
  LET r == class_indices(fm, labeling_name, class_ids)
  IN /\ Idle
     /\ pre' = fm
     /\ last' = [op |-> "class_indices", labeling_name |-> labeling_name,
                 class_ids |-> class_ids, err |-> r.err, ret |-> r.ret]
     /\ UNCHANGED << fe, fm, other, alias, caller_ids, disk, loaded, saved, blocks >>

SetRootDir(root_dir) ==
  LET r == set_root_dir(fm, root_dir)
  IN /\ Idle
     /\ fm' = r.fm
     /\ pre' = fm
     /\ last' = [op |-> "set_root_dir", root_dir |-> root_dir, err |-> r.err]
     /\ UNCHANGED << fe, other, alias, caller_ids, disk, loaded, saved, blocks >>

\* fm.save() into the directory, which is empty until then; `saved` keeps the instance
\* that was saved
Save ==
  LET r == save(fm, disk)
  IN /\ Idle
     /\ IsNone(saved)
     /\ disk' = r.disk
     /\ saved' = Some(fm)
     /\ pre' = fm
     /\ last' = [op |-> "save", err |-> r.err]
     /\ UNCHANGED << fe, fm, other, alias, caller_ids, loaded, blocks >>

\* g = FeatureMatrix(); g.set_root_dir(root of fm); g.load(), after fm.save() returned;
\* `loaded` is g afterwards
Load ==
  /\ Idle
  /\ ~IsNone(saved) /\ ~IsNone(fm.root_dir) /\ IsNone(loaded)
  /\ \E r \in load(set_root_dir(FeatureMatrix, Val(fm.root_dir)).fm, disk) :
       /\ loaded' = Some(r.fm)
       /\ last' = [op |-> "load", err |-> r.err]
  /\ pre' = fm
  /\ UNCHANGED << fe, fm, other, alias, caller_ids, disk, saved, blocks >>

\* the directory, empty until then, receives the artifacts `keep` of those that
\* ref.save() writes; `saved` keeps ref
Populate(ref, keep) ==
  LET full == save(set_root_dir(ref, "root").fm, NoDisk).disk
  IN /\ Idle
     /\ disk = NoDisk /\ IsNone(saved)
     /\ disk' = [a \in DOMAIN NoDisk |-> IF a \in keep THEN full[a] ELSE None]
     /\ saved' = Some(ref)
     /\ pre' = fm
     /\ last' = [op |-> "populate", keep |-> keep, err |-> NoErr]
     /\ UNCHANGED << fe, fm, other, alias, caller_ids, loaded, blocks >>

\* the calls on the FeatureExtraction instance fe; `last` keeps fe as it was when the
\* call was made
SetProteinIds(protein_ids) ==
  LET r == set_protein_ids(fe, protein_ids)
  IN /\ Idle
     /\ fe' = r.fe
     /\ last' = [op |-> "set_protein_ids", protein_ids |-> protein_ids, before |-> fe,
                 err |-> r.err]
     /\ UNCHANGED << fm, other, alias, caller_ids, disk, loaded, saved, pre, blocks >>

LoadMutationData(mut_ids) ==
  LET r == load_mutation_data(fe, mut_ids)
  IN /\ Idle
     /\ fe' = r.fe
     /\ last' = [op |-> "load_mutation_data", mut_ids |-> mut_ids, before |-> fe,
                 err |-> r.err]
     /\ UNCHANGED << fm, other, alias, caller_ids, disk, loaded, saved, pre, blocks >>

\* the calls explored keep each matrix of fe within MaxCols columns
CalculateProteinFeatures(featcat_id, garbage) ==
  LET r == calculate_protein_features(fe, featcat_id, garbage)
  IN /\ Idle
     /\ NumOf(r.fe.fm_protein.feature_ids) <= MaxCols
     /\ fe' = r.fe
     /\ last' = [op |-> "calculate_protein_features", featcat_id |-> featcat_id,
                 before |-> fe, err |-> r.err]
     /\ UNCHANGED << fm, other, alias, caller_ids, disk, loaded, saved, pre, blocks >>

CalculateMissenseFeatures(featcat_id, garbage) ==
  LET r == calculate_missense_features(fe, featcat_id, garbage)
  IN /\ Idle
     /\ NumOf(r.fe.fm_missense.feature_ids) <= MaxCols
     /\ fe' = r.fe
     /\ last' = [op |-> "calculate_missense_features", featcat_id |-> featcat_id,
                 before |-> fe, err |-> r.err]
     /\ UNCHANGED << fm, other, alias, caller_ids, disk, loaded, saved, pre, blocks >>

\* featcat.param_values(param_id) of the category with id fc_id in the table
ParamValues(categories, fc_id, param_id) ==
  LET r == param_values(categories[fc_id], param_id)
  IN /\ Idle
     /\ last' = [op |-> "param_values", fc_id |-> fc_id, param_types |-> categories[fc_id],
                 param_id |-> param_id, before |-> fe, err |-> r.err, ret |-> r.ret]
     /\ UNCHANGED << fe, fm, other, alias, caller_ids, disk, loaded, saved, pre, blocks >>

\* fe.fm_protein.add_features(feature_ids, feature_matrix): a block added to the
\* protein matrix by its holder, not computed from a category
AddProteinFeatures(feature_ids, feature_matrix) ==
  LET r == add_features(fe.fm_protein, feature_ids, feature_matrix, None)
  IN /\ Idle
     /\ NumOf(r.fm.feature_ids) <= MaxCols
     /\ fe' = [fe EXCEPT !.fm_protein = r.fm]
     /\ last' = [op |-> "fm_protein.add_features", feature_ids |-> feature_ids,
                 before |-> fe, err |-> r.err]
     /\ UNCHANGED << fm, other, alias, caller_ids, disk, loaded, saved, pre, blocks >>

AvailableProteinFeatcatIds ==
  LET r == available_protein_featcat_ids(fe)
  IN /\ Idle
     /\ last' = [op |-> "available_protein_featcat_ids", before |-> fe,
                 err |-> r.err, ret |-> r.ret]
     /\ UNCHANGED << fe, fm, other, alias, caller_ids, disk, loaded, saved, pre, blocks >>

CategorizedProteinFeatureIds ==
  LET r == categorized_protein_feature_ids(fe)
  IN /\ Idle
     /\ last' = [op |-> "categorized_protein_feature_ids", before |-> fe,
                 err |-> r.err, ret |-> r.ret]
     /\ UNCHANGED << fe, fm, other, alias, caller_ids, disk, loaded, saved, pre, blocks >>

\* fm.labeling_dict[labeling_name].get_obj_is_per_class(object_is), for a labeling
\* that is stored
GetObjIsPerClass(labeling_name, object_is) ==
  LET l == LookupLabeling(fm, labeling_name)
      r == get_obj_is_per_class(l.ret, object_is)
  IN /\ Idle
     /\ l.err = NoErr
     /\ pre' = fm
     /\ last' = [op |-> "get_obj_is_per_class", labeling_name |-> labeling_name,
                 object_is |-> object_is, err |-> r.err, ret |-> r.ret]
     /\ UNCHANGED << fe, fm, other, alias, caller_ids, disk, loaded, saved, blocks >>

\* the caller has seen the outcome of the call
Return ==
  /\ ~Idle
  /\ last' = NoCall
  /\ pre' = fm
  /\ UNCHANGED << fe, fm, other, alias, caller_ids, disk, loaded, saved, blocks >>

Mutate ==
  \/ \E L \in ObjectIdLists : SetObjectIds(L)
  \/ \E ids \in FeatureIdLists, dr \in {0, 1}, dc \in {0, 1} :
       \E names \in NameLists(ids) :
         AddFeatures(ids, MatrixInput(NumOf(fm.object_ids) + dr, Len(ids) + dc, ids), names)
  \/ \E c \in 0..MaxIds, dr \in {0, 1} :
       AddCustomFeatures(MatrixInput(NumOf(fm.object_ids) + dr, c, << >>))
  \/ DeleteFeatureMatrix
  \/ \E o \in OtherInstances : Merge(o)
  \/ ~IsNone(other) /\ Merge(Val(other))

Next == Mutate \/ Return

Spec == Init /\ [][Next]_vars

\* Labelings and the dataset export: three objects, at most one block of features,
\* labelings added under the name lab, and the queries
ThreeObjects == << "p1", "p2", "p3" >>

\* the matrix added for three objects with a list of ids: the column of f2 holds 22.0
\* in every row, the column of f1 differs from row to row
DataMatrix(ids) ==
  Mat(3, Len(ids), [i \in 1..3 |-> [j \in 1..Len(ids) |->
                      IF ids[j] = << "f", "2" >> THEN 22 ELSE 10 + i]])

\* the labeling names queried: the two that get stored and one that never is
LabelingNames == { "lab", "one_class", "nolab" }

DataNext ==
  \/ SetObjectIds(ThreeObjects)
  \/ \E ids \in { << << "f", "1" >> >>, << << "f", "2" >>, << "f", "1" >> >> } :
       AddFeatures(ids, DataMatrix(ids), None)
  \/ \E label_dict \in LabelDicts(ThreeObjects), names \in ClassNameArgs :
       AddLabels("lab", label_dict, names)
  \/ \E feat_ids \in { None, Some(<< << "f", "1" >> >>) },
        labeling_name \in { None, Some("lab") },
        class_ids \in { None } \cup { Some(c) : c \in ClassIdLists },
        standardized \in BOOLEAN :
       GetDataset(feat_ids, labeling_name, class_ids, standardized)
  \/ \E labeling_name \in LabelingNames, class_ids \in ClassIdLists :
       ObjectIndices(labeling_name, class_ids)
  \/ \E labeling_name \in LabelingNames, class_ids \in ClassIdLists :
       ClassIndices(labeling_name, class_ids)
  \/ \E feature_ids \in FeatureIdLists : FeatureIndices(feature_ids)
  \/ Return

SpecData == Init /\ [][DataNext]_vars

\* Persistence: an instance is built with every mutator, saved once into the empty
\* directory and loaded into a fresh instance
StoreBuild ==
  \/ \E L \in { << >>, << "p1" >>, << "p1", "p2" >> } : SetObjectIds(L)
  \/ \E ids \in { s \in FeatureIdLists : NoDup(s) } : \E names \in NameLists(ids) :
       AddFeatures(ids, MatrixInput(NumOf(fm.object_ids), Len(ids), ids), names)
  \/ \E c \in 1..MaxIds : AddCustomFeatures(MatrixInput(NumOf(fm.object_ids), c, << >>))
  \/ DeleteFeatureMatrix
  \/ \E o \in OtherInstances : Merge(o)
  \/ \E codes \in { << 0, 1 >>, << 1, 1 >> } :
       AddLabels("lab", LabelDict(<< "p1", "p2" >>, codes), << PyStr("A"), PyStr("B") >>)
  \/ SetRootDir("root")

StoreNext ==
  \/ IsNone(saved) /\ StoreBuild
  \/ Save
  \/ Load
  \/ Return

SpecStore == Init /\ [][StoreNext]_vars

\* Loading from a directory that holds some of the artifacts of a saved instance
SavedInstances ==
  LET bound == { set_object_ids(FeatureMatrix, L).fm : L \in { << "p1", "p2" >>, << "p1", "p2", "p3" >> } }
      labelled == bound \cup
        { add_labels(m, "lab", LabelDict(Val(m.object_ids), << 0, 1, 0 >>),
                     << PyStr("A"), PyStr("B") >>).fm : m \in bound }
  IN { add_features(m, ids, MatrixInput(Len(Val(m.object_ids)), Len(ids), ids),
                    IF named THEN Some([i \in 1..Len(ids) |-> NameOf(ids[i])]) ELSE None).fm :
         m \in labelled,
         ids \in { << >>, << << "f", "1" >> >>, << << "f", "2" >>, << "f", "1" >> >> },
         named \in BOOLEAN }

LoadNext ==
  \/ SetRootDir("root")
  \/ \E ref \in SavedInstances, keep \in SUBSET DOMAIN NoDisk : Populate(ref, keep)
  \/ Load
  \/ Return

SpecLoad == Init /\ [][LoadNext]_vars

\* Feature extraction: the protein ids and the mutation data are set, categories are
\* computed into the two matrices, and parameter ids are parsed
ProteinIdLists == { << >>, << "p1", "p2" >> }
MutationIdLists == { << >>, << "m1", "m2", "m3" >> }

\* the parameter ids tried: '', '5', 'x', '5-2', 'x-5', '-'
ParamIds == { << >>, << "5" >>, << "x" >>, << "5", "-", "2" >>, << "x", "-", "5" >>, << "-" >> }

\* the combined ids tried with calculate_protein_features: len, aac_5, ctd_,
\* teraac_x-5, aac, aac_, len_, aac_5-2, aac_x, aac_5_1 and zz
ProteinFeatcatIds ==
  { << "l", "e", "n" >>, << "a", "a", "c", "_", "5" >>, << "c", "t", "d", "_" >>,
    << "t", "e", "r", "a", "a", "c", "_", "x", "-", "5" >>, << "a", "a", "c" >>,
    << "a", "a", "c", "_" >>, << "l", "e", "n", "_" >>,
    << "a", "a", "c", "_", "5", "-", "2" >>, << "a", "a", "c", "_", "x" >>,
    << "a", "a", "c", "_", "5", "_", "1" >>, << "z", "z" >> }

\* and with calculate_missense_features: pfam, codonenv_3, codonenv, pfam_, codonenv_
MissenseFeatcatIds ==
  { << "p", "f", "a", "m" >>, << "c", "o", "d", "o", "n", "e", "n", "v", "_", "3" >>,
    << "c", "o", "d", "o", "n", "e", "n", "v" >>, << "p", "f", "a", "m", "_" >>,
    << "c", "o", "d", "o", "n", "e", "n", "v", "_" >> }

\* what the memory of an uninitialised array may hold
Garbage == { 0, 99 }

ExtNext ==
  \/ \E protein_ids \in ProteinIdLists : SetProteinIds(protein_ids)
  \/ \E mut_ids \in MutationIdLists : LoadMutationData(mut_ids)
  \/ \E featcat_id \in ProteinFeatcatIds, garbage \in Garbage :
       CalculateProteinFeatures(featcat_id, garbage)
  \/ \E featcat_id \in MissenseFeatcatIds, garbage \in Garbage :
       CalculateMissenseFeatures(featcat_id, garbage)
  \/ \E fc_id \in DOMAIN PROTEIN_FEATURE_CATEGORIES, param_id \in ParamIds :
       ParamValues(PROTEIN_FEATURE_CATEGORIES, fc_id, param_id)
  \/ \E fc_id \in DOMAIN MUTATION_FEATURE_CATEGORIES, param_id \in ParamIds :
       ParamValues(MUTATION_FEATURE_CATEGORIES, fc_id, param_id)
  \/ Return

SpecExt == Init /\ [][ExtNext]_vars

\* The reverse index of a labeling: three objects, labelings added under the name lab,
\* and the index asked for whole or for a list of at most MaxIds indices
ObjectIndexLists == SeqsUpTo(-1..3, MaxIds)

LabNext ==
  \/ SetObjectIds(ThreeObjects)
  \/ \E label_dict \in LabelDicts(ThreeObjects), names \in ClassNameArgs :
       AddLabels("lab", label_dict, names)
  \/ \E labeling_name \in { "lab", "one_class" },
        object_is \in { None } \cup { Some(F) : F \in ObjectIndexLists } :
       GetObjIsPerClass(labeling_name, object_is)
  \/ Return

SpecLab == Init /\ [][LabNext]_vars

\* Regrouping the stored protein feature ids: blocks computed from categories and
\* blocks added directly, whose ids are aac_7_A, aac_v, x and a_b_c_d
DirectFeatureIds ==
  { << "a", "a", "c", "_", "7", "_", "A" >>, << "a", "a", "c", "_", "v" >>, << "x" >>,
    << "a", "_", "b", "_", "c", "_", "d" >> }

CatNext ==
  \/ SetProteinIds(<< "p1", "p2" >>)
  \/ \E featcat_id \in { << "l", "e", "n" >>, << "a", "a", "c", "_", "5" >>,
                          << "c", "t", "d", "_" >> } :
       CalculateProteinFeatures(featcat_id, 0)
  \/ \E f \in DirectFeatureIds : AddProteinFeatures(<< f >>, Filled(2, 1, 40))
  \/ AvailableProteinFeatcatIds
  \/ CategorizedProteinFeatureIds
  \/ Return

SpecCat == Init /\ [][CatNext]_vars

----------------------------------------------------------------------------
(* Properties of add_features *)

\* the four validations of add_features, stated on the arguments and the instance
FailsValidation(m, ids, mat) ==
  \/ \E i, j \in 1..Len(ids) : i # j /\ ids[i] = ids[j]
  \/ ~IsNone(m.feature_ids) /\ \E i \in 1..Len(ids) : ids[i] \in ToSet(Val(m.feature_ids))
  \/ mat.shape[1] # Len(Val(m.object_ids))
  \/ mat.shape[2] # Len(ids)

\* C1: an add_features call on a matrix with objects bound that fails one of the four
\* validations (duplicate ids, an id already stored, wrong row count, wrong column
\* count) signals an error and leaves feature ids, matrix, names, object ids and
\* labelings as they were before the call.
C1_FailedAddChangesNothing ==
  (last.op = "add_features" /\ ~IsNone(pre.object_ids)
     /\ FailsValidation(pre, last.feature_ids, last.feature_matrix))
    => (last.err # NoErr /\ fm = pre)

\* an add_features call was refused because one of its ids is stored already
C1_Witness ==
  /\ last.op = "add_features" /\ last.err = "ValueError"
  /\ Truthy(pre.feature_ids)
  /\ \E i \in 1..Len(last.feature_ids) : last.feature_ids[i] \in ToSet(Val(pre.feature_ids))
  /\ Len(Val(pre.object_ids)) = 2
  /\ last.feature_matrix.shape = << 2, Len(last.feature_ids) >>
  /\ fm = pre

\* C2: after two blocks B1, B2 were accepted in that order by a matrix with no features,
\* the stored feature ids are B1's ids followed by B2's ids and column j of the stored
\* matrix is the column supplied for the j-th id of that concatenation.
C2_BlocksAreConcatenated ==
  Len(blocks) = 2 =>
    LET B1 == blocks[1]
        B2 == blocks[2]
        n1 == Len(B1.ids)
    IN /\ fm.feature_ids = Some(B1.ids \o B2.ids)
       /\ Val(fm.feature_matrix).shape[2] = n1 + Len(B2.ids)
       /\ \A j \in 0..(n1 + Len(B2.ids) - 1) :
            Column(Val(fm.feature_matrix), j) =
              IF j < n1 THEN Column(B1.mat, j) ELSE Column(B2.mat, j - n1)

\* two non-empty blocks were added one after the other
C2_Witness ==
  /\ Len(blocks) = 2 /\ Len(blocks[1].ids) > 0 /\ Len(blocks[2].ids) > 0
  /\ last.op = "add_features" /\ last.err = NoErr
  /\ Len(Val(fm.object_ids)) = 2

----------------------------------------------------------------------------
(* Properties of set_object_ids *)

\* C3: set_object_ids on a matrix whose objects are bound fails and leaves the object
\* list and the labelings unchanged; on an unbound matrix a list with a duplicate fails
\* and leaves the matrix without objects and without labelings, so a call that follows
\* with a duplicate-free, non-empty list binds that list.
C3_Refused ==
  /\ (last.op = "set_object_ids" /\ ~IsNone(pre.object_ids))
       => (last.err = "ValueError" /\ fm = pre)
  /\ (last.op = "set_object_ids" /\ IsNone(pre.object_ids) /\ ~NoDup(last.object_ids))
       => (last.err = "ValueError" /\ IsNone(fm.object_ids) /\ IsNone(fm.labeling_dict))

\* a refused call leaves the unbound matrix as it was, and an unbound matrix binds
\* every duplicate-free, non-empty list
C3_ThenAccepted ==
  /\ (last.op = "set_object_ids" /\ IsNone(pre.object_ids) /\ ~NoDup(last.object_ids))
       => fm = pre
  /\ (last.op = "set_object_ids" /\ IsNone(pre.object_ids)
        /\ NoDup(last.object_ids) /\ Len(last.object_ids) > 0)
       => (last.err = NoErr /\ fm.object_ids = Some(last.object_ids))

C3_SetObjectIdsErrors == C3_Refused /\ C3_ThenAccepted

\* a second set_object_ids was refused on a matrix that has objects and a labeling
C3_Witness ==
  /\ last.op = "set_object_ids" /\ last.err = "ValueError"
  /\ Truthy(pre.object_ids) /\ TruthyDict(pre.labeling_dict)
  /\ NoDup(last.object_ids) /\ last.object_ids # Val(pre.object_ids)

\* the labeling set_object_ids is to create for the object list L
DefaultLabeling(m, L) ==
  /\ ~IsNone(m.labeling_dict)
  /\ "one_class" \in DOMAIN Val(m.labeling_dict)
  /\ LET l == Val(m.labeling_dict)["one_class"]
     IN /\ l.class_names = Some(<< "all" >>)
        /\ ~IsNone(l.object_indices_per_class)
        /\ DOMAIN Val(l.object_indices_per_class) = { "all" }
        /\ Val(l.object_indices_per_class)["all"] = [i \in 1..Len(L) |-> i - 1]

\* C4: set_object_ids on a fresh FeatureMatrix with a duplicate-free list L of any
\* length succeeds, binds L and creates the labeling one_class whose single class all
\* holds the indices 0..len(L)-1.
C4_EveryUniqueListIsBound ==
  (last.op = "set_object_ids" /\ pre = FeatureMatrix /\ NoDup(last.object_ids))
    => /\ last.err = NoErr
       /\ fm.object_ids = Some(last.object_ids)
       /\ DefaultLabeling(fm, last.object_ids)

----------------------------------------------------------------------------
(* Properties of add_custom_features *)

\* the ids cus<n>_0 .. cus<n>_(k-1)
CustomIds(n, k) == [i \in 1..k |-> CustomFeatId(n, i - 1)]

\* C5: on a matrix with objects bound and no features, two consecutive calls of
\* add_custom_features with matrices of the right row count and at least one column
\* both succeed, the first storing cus0_0.., the second cus1_0...
C5_CustomBlocksAreNumbered ==
  (/\ last.op = "add_custom_features"
   /\ Truthy(pre.object_ids)
   /\ last.feature_matrix.shape[1] = Len(Val(pre.object_ids))
   /\ last.feature_matrix.shape[2] >= 1)
    => LET k == last.feature_matrix.shape[2]
       IN /\ NumOf(pre.feature_ids) = 0
               => (last.err = NoErr /\ fm.feature_ids = Some(CustomIds(0, k)))
          /\ (\E m \in 1..MaxCols : pre.feature_ids = Some(CustomIds(0, m)))
               => (last.err = NoErr
                   /\ fm.feature_ids = Some(Val(pre.feature_ids) \o CustomIds(1, k)))

----------------------------------------------------------------------------
(* Properties of merge *)

IdsOf(m) == IF IsNone(m.feature_ids) THEN << >> ELSE Val(m.feature_ids)

\* C6: self.merge(other) fails with ValueError and changes nothing in self when other's
\* object id sequence differs from self's; when the sequences are identical and other's
\* feature ids are disjoint from self's, self's feature ids become its previous ids
\* followed by other's, and its object ids and labelings are unchanged.
C6_Merge ==
  last.op = "merge" =>
    /\ last.other.object_ids # pre.object_ids => (last.err = "ValueError" /\ fm = pre)
    /\ (/\ last.other.object_ids = pre.object_ids
        /\ ~IsNone(last.other.feature_ids)
        /\ ToSet(IdsOf(last.other)) \cap ToSet(IdsOf(pre)) = {})
         => /\ fm.feature_ids = Some(IdsOf(pre) \o IdsOf(last.other))
            /\ fm.object_ids = pre.object_ids
            /\ fm.labeling_dict = pre.labeling_dict

\* a merge appended the features of other behind those self already had
C6_Witness ==
  /\ last.op = "merge" /\ last.err = NoErr
  /\ Truthy(pre.object_ids) /\ Truthy(pre.feature_ids) /\ Truthy(last.other.feature_ids)
  /\ fm.feature_ids = Some(Val(pre.feature_ids) \o Val(last.other.feature_ids))

----------------------------------------------------------------------------
(* Properties of get_dataset and object_indices *)

\* the class the labeling l gives the object with id o of the instance m
ClassOf(m, l, o) ==
  PIndex(Val(l.class_names), Val(l.labels)[ListIndex(Val(m.object_ids), o) + 1])

\* the labeling a get_dataset call reads
LabelingRead(m, labeling_name) ==
  Val(m.labeling_dict)[IF IsNone(labeling_name) THEN "one_class" ELSE Val(labeling_name)]

\* C7 as claimed: get_dataset with class_ids = ['B', 'A'] gives every object of class B
\* the target 0 and every object of class A the target 1, whatever their codes.
C7_FirstNamedClassIsZero ==
  (last.op = "get_dataset" /\ last.err = NoErr /\ last.class_ids = Some(<< "B", "A" >>))
    => LET l == LabelingRead(pre, last.labeling_name)
       IN \A i \in 1..Len(last.ret.sample_names) :
            /\ ClassOf(pre, l, last.ret.sample_names[i]) = "B" => last.ret.target[i] = 0
            /\ ClassOf(pre, l, last.ret.sample_names[i]) = "A" => last.ret.target[i] = 1

\* C7 as amended: with class_ids = ['B', 'A'] the targets follow the order of the two
\* classes in the labeling's class name list, not the order of class_ids: the class
\* that comes first in class_names gets 0 and the other 1, so B is 0 and A is 1 only
\* when B precedes A in class_names.
C7_TargetsFollowClassIndex ==
  (last.op = "get_dataset" /\ last.err = NoErr /\ last.class_ids = Some(<< "B", "A" >>))
    => LET l == LabelingRead(pre, last.labeling_name)
           names == Val(l.class_names)
           first == IF ListIndex(names, "B") < ListIndex(names, "A") THEN "B" ELSE "A"
       IN \A i \in 1..Len(last.ret.sample_names) :
            last.ret.target[i] =
              IF ClassOf(pre, l, last.ret.sample_names[i]) = first THEN 0 ELSE 1

\* get_dataset(class_ids=['B','A']) returned objects of both classes of a labeling
\* that lists A before B
C7_Witness ==
  /\ last.op = "get_dataset" /\ last.err = NoErr /\ last.class_ids = Some(<< "B", "A" >>)
  /\ Val(LabelingRead(pre, last.labeling_name).class_names) = << "A", "B" >>
  /\ ToSet(last.ret.target) = { 0, 1 }

\* strictly ascending
Ascending(s) == \A i, j \in 1..Len(s) : i < j => s[i] < s[j]

C9_ObjectIndicesStrictlyAscending ==
  (last.op = "object_indices" /\ last.err = NoErr)
    => LET l == Val(pre.labeling_dict)[last.labeling_name]
       IN /\ Ascending(last.ret)
          /\ ToSet(last.ret) =
               { i \in 0..(Len(Val(pre.object_ids)) - 1) :
                   PIndex(Val(l.class_names), Val(l.labels)[i + 1]) \in ToSet(last.class_ids) }

----------------------------------------------------------------------------
(* Properties of save and load *)

\* object ids that are unset or were bound by an accepted set_object_ids call
Accepted(object_ids) == IsNone(object_ids) \/ Truthy(object_ids)

\* the same ids, an unset and an empty list both holding none
SameList(a, b) == (NumOf(a) = 0 /\ NumOf(b) = 0) \/ a = b

\* the same labels per object and the same class names in every labeling
SameLabelings(a, b) ==
  LET da == IF IsNone(a.labeling_dict) THEN EmptyDict ELSE Val(a.labeling_dict)
      db == IF IsNone(b.labeling_dict) THEN EmptyDict ELSE Val(b.labeling_dict)
  IN /\ DOMAIN da = DOMAIN db
     /\ \A k \in DOMAIN da : da[k].labels = db[k].labels /\ da[k].class_names = db[k].class_names

\* C10: for every instance built with the mutators, with a root configured on an
\* empty directory, save() completes and load() into a fresh instance with that root
\* completes and gives the same object ids, feature ids, name per feature id, matrix
\* values and labelings.
C10_SaveLoadRoundTrip ==
  /\ (last.op = "save" /\ ~IsNone(pre.root_dir) /\ Accepted(pre.object_ids)) => last.err = NoErr
  /\ (last.op = "load" /\ ~IsNone(loaded) /\ Accepted(Val(saved).object_ids)) =>
       LET a == Val(saved)
           b == Val(loaded)
       IN /\ last.err = NoErr
          /\ SameList(a.object_ids, b.object_ids)
          /\ SameList(a.feature_ids, b.feature_ids)
          /\ ~IsNone(a.feature_ids) =>
               \A i \in 1..Len(Val(a.feature_ids)) :
                 LET fid == Val(a.feature_ids)[i]
                 IN /\ ~IsNone(b.feature_names) /\ fid \in DOMAIN Val(b.feature_names)
                    /\ Val(b.feature_names)[fid] = Val(a.feature_names)[fid]
          /\ a.feature_matrix = b.feature_matrix
          /\ SameLabelings(a, b)

----------------------------------------------------------------------------
(* Invariants of the stored labelings and features *)

\* the labeling l has one label per object, codes that index class_names from 0, and
\* no class name twice
WellFormed(l, object_ids) ==
  /\ ~IsNone(l.labels) /\ ~IsNone(l.class_names)
  /\ Len(Val(l.labels)) = NumOf(object_ids)
  /\ \A i \in 1..Len(Val(l.labels)) :
       0 <= Val(l.labels)[i] /\ Val(l.labels)[i] < Len(Val(l.class_names))
  /\ NoDup(Val(l.class_names))

\* C11: every labeling in labeling_dict has exactly one label per bound object, every
\* label code c satisfies 0 <= c < len(class_names), and class_names repeats no name.
C11_LabelingsAreWellFormed ==
  ~IsNone(fm.labeling_dict) =>
    \A k \in DOMAIN Val(fm.labeling_dict) : WellFormed(Val(fm.labeling_dict)[k], fm.object_ids)

\* C12: whenever features are stored, feature_ids holds no id twice and the matrix has
\* len(feature_ids) columns and len(object_ids) rows.
C12_FeaturesAreRectangular ==
  ~IsNone(fm.feature_ids) =>
    /\ NoDup(Val(fm.feature_ids))
    /\ ~IsNone(fm.feature_matrix) /\ ~IsNone(fm.object_ids)
    /\ Val(fm.feature_matrix).shape = << Len(Val(fm.object_ids)), Len(Val(fm.feature_ids)) >>

\* features of two blocks are stored and a call that would break the shape was refused
C12_Witness ==
  /\ last.op \in { "add_features", "merge", "add_custom_features" } /\ last.err # NoErr
  /\ Truthy(fm.object_ids) /\ Len(blocks) >= 2 /\ NumOf(fm.feature_ids) >= 2

\* C13: after a successful add_features(feature_ids, matrix, names) every id of
\* feature_ids has a name in feature_names, the id itself when names is omitted and
\* the entry of names at its position otherwise, whatever names the call accepts; so
\* every stored feature id has a name.
C13_EveryFeatureHasAName ==
  /\ (last.op = "add_features" /\ last.err = NoErr /\ Truthy(fm.object_ids)) =>
       \A i \in 1..Len(last.feature_ids) :
         LET fid == last.feature_ids[i]
         IN /\ fid \in DOMAIN Val(fm.feature_names)
            /\ IF IsNone(last.feature_names) THEN Val(fm.feature_names)[fid] = fid
               ELSE /\ i <= Len(Val(last.feature_names))
                    /\ Val(fm.feature_names)[fid] = Val(last.feature_names)[i]
  /\ (~IsNone(fm.feature_ids) /\ Truthy(fm.object_ids)) =>
       /\ ~IsNone(fm.feature_names)
       /\ ToSet(Val(fm.feature_ids)) \subseteq DOMAIN Val(fm.feature_names)

----------------------------------------------------------------------------
(* Properties of add_labels *)

\* the codes label_map gives the bound objects, in object order
CodesOfBound(m, label_map) ==
  [i \in 1..Len(Val(m.object_ids)) |-> label_map[Val(m.object_ids)[i]].v]

\* the cases in which add_labels is to fail
NotAnInt(label_map) == \E k \in DOMAIN label_map : label_map[k].type # "int"
MissingObject(m, label_map) ==
  ~IsNone(m.object_ids) /\ ToSet(Val(m.object_ids)) \ DOMAIN label_map # {}
NotAStr(class_names) == \E i \in 1..Len(class_names) : class_names[i].type # "str"
TooFewNames(m, label_map, class_names) ==
  /\ Truthy(m.object_ids) /\ ~NotAnInt(label_map) /\ ~MissingObject(m, label_map)
  /\ Len(class_names) <= MaxOf(CodesOfBound(m, label_map))

\* C14: add_labels fails when a value of label_map is not an integer, when a bound
\* object id is missing from label_map, when a class name is not a string, or when
\* len(class_names) does not exceed the maximum label code (of the bound objects); the
\* labeling_dict is then as it was before the call.
C14_RefusedLabelsChangeNothing ==
  (/\ last.op = "add_labels"
   /\ \/ NotAnInt(last.label_dict)
      \/ MissingObject(pre, last.label_dict)
      \/ NotAStr(last.class_names)
      \/ TooFewNames(pre, last.label_dict, last.class_names))
    => (last.err # NoErr /\ fm.labeling_dict = pre.labeling_dict)

\* add_labels was refused for too few class names while a labeling of that name is stored
C14_Witness ==
  /\ last.op = "add_labels" /\ last.err # NoErr
  /\ TooFewNames(pre, last.label_dict, last.class_names)
  /\ ~NotAStr(last.class_names)
  /\ TruthyDict(pre.labeling_dict) /\ last.labeling_name \in DOMAIN Val(pre.labeling_dict)

----------------------------------------------------------------------------
(* Properties of the index queries *)

\* the exceptions of Python's LookupError kind
LookupErrors == { "LookupError", "KeyError", "IndexError" }

UnknownLabeling(m, labeling_name) ==
  ~IsNone(m.labeling_dict) /\ labeling_name \notin DOMAIN Val(m.labeling_dict)

UnknownClass(m, labeling_name, class_ids) ==
  /\ ~IsNone(m.labeling_dict) /\ labeling_name \in DOMAIN Val(m.labeling_dict)
  /\ ToSet(class_ids) \ ToSet(Val(Val(m.labeling_dict)[labeling_name].class_names)) # {}

\* C15: feature_indices with an id that is not stored, and object_indices and
\* class_indices with an unknown labeling name or a class id that is no class name of
\* the labeling, fail with an error of the LookupError kind, the same for all three.
C15_UnresolvedIdsRaiseLookupError ==
  /\ (last.op = "feature_indices" /\ ~IsNone(pre.feature_ids)
        /\ ToSet(last.feature_ids) \ ToSet(Val(pre.feature_ids)) # {})
       => last.err \in LookupErrors
  /\ (last.op \in { "object_indices", "class_indices" }
        /\ (UnknownLabeling(pre, last.labeling_name)
              \/ UnknownClass(pre, last.labeling_name, last.class_ids)))
       => last.err \in LookupErrors

----------------------------------------------------------------------------
(* Properties of standardization *)

\* C17: every column of the matrix that is standardized whose values are all equal is
\* 0 in every row of the standardized result, and the stored feature_matrix is not
\* modified.
C17_ConstantColumnsBecomeZero ==
  (/\ last.op = "get_dataset" /\ last.err = NoErr /\ last.standardized
   /\ ~IsNone(last.ret.fm) /\ ~IsNone(last.ret.feature_names))
    => LET out == Val(last.ret.fm)
           row(i) == ListIndex(Val(pre.object_ids), last.ret.sample_names[i]) + 1
           column(j) == ListIndex(Val(pre.feature_ids), Val(last.ret.feature_names)[j]) + 1
           src(i, j) == Val(pre.feature_matrix).v[row(i)][column(j)]
       IN /\ fm = pre
          /\ \A j \in 1..out.shape[2] :
               (\A i, k \in 1..out.shape[1] : src(i, j) = src(k, j))
                 => \A i \in 1..out.shape[1] : out.v[i][j] = 0

----------------------------------------------------------------------------
(* Properties of delete_feature_matrix *)

\* C16: delete_feature_matrix unsets the stored feature ids and the feature matrix and
\* leaves object_ids and every labeling as they were; afterwards add_features accepts
\* a block, also one that reuses ids stored before the deletion.
C16_DeleteKeepsObjectsAndLabelings ==
  /\ last.op = "delete_feature_matrix" =>
       /\ last.err = NoErr
       /\ IsNone(fm.feature_ids) /\ IsNone(fm.feature_matrix)
       /\ fm.object_ids = pre.object_ids
       /\ fm.labeling_dict = pre.labeling_dict
  /\ (/\ last.op = "add_features"
      /\ IsNone(pre.feature_ids) /\ ~IsNone(pre.object_ids)
      /\ NoDup(last.feature_ids)
      /\ last.feature_matrix.shape = << Len(Val(pre.object_ids)), Len(last.feature_ids) >>)
       => (last.err = NoErr /\ fm.feature_ids = Some(last.feature_ids)
             /\ fm.feature_matrix = Some(last.feature_matrix))

\* the ids of a block that was stored and deleted are added again, on a matrix that
\* holds a labeling besides the default one
C16_Witness ==
  /\ last.op = "add_features" /\ last.err = NoErr
  /\ IsNone(pre.feature_ids) /\ ~IsNone(pre.feature_names)
  /\ last.feature_ids # << >>
  /\ ToSet(last.feature_ids) \subseteq DOMAIN Val(pre.feature_names)
  /\ TruthyDict(fm.labeling_dict) /\ "lab" \in DOMAIN Val(fm.labeling_dict)

----------------------------------------------------------------------------
(* Properties of load on a directory that holds some of the artifacts *)

Present(a) == ~IsNone(disk[a])

\* the matrix file is absent or holds at least one value
MatrixFileHasData ==
  Present("feature_matrix_mat") => \E i \in 1..Len(Val(disk.feature_matrix_mat)) :
                                     Len(Val(disk.feature_matrix_mat)[i]) > 0

\* an absent artifact leaves its field of g unset; without a labels directory the
\* only labeling is the one set_object_ids makes
AbsentStaysEmpty(g) ==
  /\ ~Present("object_ids_txt") => IsNone(g.object_ids)
  /\ ~Present("feature_ids_txt") => IsNone(g.feature_ids)
  /\ ~Present("feature_names_txt") => IsNone(g.feature_names)
  /\ ~Present("feature_matrix_mat") => IsNone(g.feature_matrix)
  /\ ~Present("labels") =>
       (IsNone(g.labeling_dict) \/ DOMAIN Val(g.labeling_dict) \subseteq { "one_class" })

----------------------------------------------------------------------------
(* Properties of calculate_protein_features and calculate_missense_features *)

\* C19: a call of calculate_protein_features made while fm_protein holds no object
\* ids, and a call of calculate_missense_features made while fm_missense holds none,
\* raises AssertionError and leaves both matrices as they were.
C19_UnboundObjectsFailTheAssertion ==
  /\ (last.op = "calculate_protein_features" /\ IsNone(last.before.fm_protein.object_ids))
       => (last.err = "AssertionError" /\ fe = last.before)
  /\ (last.op = "calculate_missense_features" /\ IsNone(last.before.fm_missense.object_ids))
       => (last.err = "AssertionError" /\ fe = last.before)

----------------------------------------------------------------------------
(* Properties of the parsing of parameter ids *)

\* the number of tokens of a parameter id, the empty id having none
TokenCount(param_id) == IF param_id = << >> THEN 0 ELSE Len(Split(param_id, "-"))

\* the parameter id of a combined id: what follows the separator, '' without one
ParamIdOf(featcat_id) ==
  IF \E i \in 1..Len(featcat_id) : featcat_id[i] = "_"
    THEN LET k == CHOOSE i \in 1..Len(featcat_id) :
                    featcat_id[i] = "_" /\ \A j \in 1..(i - 1) : featcat_id[j] # "_"
         IN SubSeq(featcat_id, k + 1, Len(featcat_id))
  ELSE << >>

\* the table a calculate_ call looks its category up in
CategoriesOf(op) ==
  IF op = "calculate_protein_features" THEN PROTEIN_FEATURE_CATEGORIES
  ELSE MUTATION_FEATURE_CATEGORIES

\* C20: param_values returns, and the parsing inside the calculate_ functions goes
\* through, only for a parameter id whose number of tokens is the number of
\* parameters the category declares; the empty id counts no token.
C20_ParsingChecksTheTokenCount ==
  /\ (last.op = "param_values" /\ last.err = NoErr)
       => TokenCount(last.param_id) = Len(last.param_types)
  /\ (/\ last.op \in { "calculate_protein_features", "calculate_missense_features" }
      /\ Truthy(last.before.fm_protein.object_ids)
      /\ ParseFeatcatId(CategoriesOf(last.op), last.featcat_id).err = NoErr)
       => TokenCount(ParamIdOf(last.featcat_id))
            = Len(CategoriesOf(last.op)[ParseFeatcatId(CategoriesOf(last.op), last.featcat_id).ret.fc_id])

----------------------------------------------------------------------------
(* Properties of the regrouping of the protein feature ids *)

\* the category and the parameter string of a feature id of two or three tokens
CatOf(feat_id) == Split(feat_id, "_")[1]
ParamsOf(feat_id) ==
  IF Len(Split(feat_id, "_")) = 3 THEN Split(feat_id, "_")[2] ELSE << >>

\* every id of the list splits into two or three tokens
TwoOrThreeTokens(ids) == \A i \in 1..Len(ids) : Len(Split(ids[i], "_")) \in { 2, 3 }

\* the ids of the list in category c with parameter string p, in stored order
GroupOf(ids, c, p) == SelectSeq(ids, LAMBDA f : CatOf(f) = c /\ ParamsOf(f) = p)

\* C21: when every stored protein feature id has two or three tokens,
\* categorized_protein_feature_ids returns the dict whose list at [category][params]
\* holds, in stored order, exactly the stored ids of that category and parameter
\* string ('' for two tokens), with no other key; and available_protein_featcat_ids
\* returns the set of '<category>' of the two-token ids and '<category>_<params>' of
\* the three-token ids.
C21_IdsAreGroupedByCategoryAndParams ==
  /\ (/\ last.op = "categorized_protein_feature_ids"
      /\ ~IsNone(last.before.fm_protein.feature_ids)
      /\ TwoOrThreeTokens(Val(last.before.fm_protein.feature_ids)))
       => LET ids == Val(last.before.fm_protein.feature_ids)
              d == last.ret
          IN /\ last.err = NoErr
             /\ DOMAIN d = { CatOf(f) : f \in ToSet(ids) }
             /\ \A c \in DOMAIN d :
                  /\ DOMAIN d[c] = { ParamsOf(f) : f \in { g \in ToSet(ids) : CatOf(g) = c } }
                  /\ \A q \in DOMAIN d[c] : d[c][q] = GroupOf(ids, c, q)
  /\ (/\ last.op = "available_protein_featcat_ids"
      /\ ~IsNone(last.before.fm_protein.feature_ids)
      /\ TwoOrThreeTokens(Val(last.before.fm_protein.feature_ids)))
       => /\ last.err = NoErr
          /\ last.ret = { IF Len(Split(f, "_")) = 2 THEN CatOf(f)
                          ELSE CatOf(f) \o << "_" >> \o ParamsOf(f) :
                          f \in ToSet(Val(last.before.fm_protein.feature_ids)) }

\* three ids were regrouped: two of one category with different parameter strings,
\* among them ids of two and of three tokens
C21_Witness ==
  /\ last.op = "categorized_protein_feature_ids"
  /\ last.err = NoErr
  /\ ~IsNone(last.before.fm_protein.feature_ids)
  /\ LET ids == Val(last.before.fm_protein.feature_ids)
     IN /\ Len(ids) = 3
        /\ \E i, j \in 1..3 : CatOf(ids[i]) = CatOf(ids[j]) /\ ParamsOf(ids[i]) # ParamsOf(ids[j])
        /\ \E i, j \in 1..3 : Len(Split(ids[i], "_")) = 3 /\ Len(Split(ids[j], "_")) = 2

----------------------------------------------------------------------------
(* Properties of the reverse index of a labeling *)

\* the labeling a get_obj_is_per_class call was made on
AskedLabeling == Val(fm.labeling_dict)[last.labeling_name]

\* class_names[labels[i]] for the row index i
ClassOfRow(l, i) == PIndex(Val(l.class_names), PIndex(Val(l.labels), i))

\* the row indices 0..n-1 in ascending order
Rows(l) == [k \in 1..Len(Val(l.labels)) |-> k - 1]

\* the reverse index d restricted to the indices of F: classes left without an index
\* are dropped
Restricted(d, F) ==
  [c \in { k \in DOMAIN d : ToSet(d[k]) \cap ToSet(F) # {} } |->
     SelectSeq(d[c], LAMBDA i : i \in ToSet(F))]

\* asked without a filter, the call returns for each class that labels a row exactly
\* the rows i with class_names[labels[i]] that class, ascending
FullIndexIsRight ==
  (last.op = "get_obj_is_per_class" /\ IsNone(last.object_is))
    => LET l == AskedLabeling
       IN /\ last.err = NoErr
          /\ DOMAIN last.ret = { ClassOfRow(l, i) : i \in ToSet(Rows(l)) }
          /\ \A c \in DOMAIN last.ret :
               last.ret[c] = SelectSeq(Rows(l), LAMBDA i : ClassOfRow(l, i) = c)

StrictlyAscending(F) == \A i \in 1..(Len(F) - 1) : F[i] < F[i + 1]

\* C22 as stated: the full reverse index is right, and for every list F of row
\* indices the call returns the full reverse index restricted to the indices in F.
C22_FilterRestrictsTheReverseIndex ==
  /\ FullIndexIsRight
  /\ (/\ last.op = "get_obj_is_per_class"
      /\ ~IsNone(last.object_is)
      /\ ToSet(Val(last.object_is)) \subseteq ToSet(Rows(AskedLabeling)))
       => /\ last.err = NoErr
          /\ last.ret = Restricted(Val(AskedLabeling.object_indices_per_class),
                                   Val(last.object_is))

\* C22: the full reverse index is right; for a list F of indices within -n..n-1 the
\* call returns, for each class of an index of F, the indices of F of that class in
\* the order and with the repeats of F; that is the restricted reverse index when F
\* is strictly ascending within 0..n-1; an index outside -n..n-1 raises IndexError.
C22_FilterGroupsTheGivenIndices ==
  /\ FullIndexIsRight
  /\ (last.op = "get_obj_is_per_class" /\ ~IsNone(last.object_is))
       => LET l == AskedLabeling
              F == Val(last.object_is)
          IN IF \A k \in 1..Len(F) : InRange(Val(l.labels), F[k])
               THEN /\ last.err = NoErr
                    /\ DOMAIN last.ret = { ClassOfRow(l, i) : i \in ToSet(F) }
                    /\ \A c \in DOMAIN last.ret :
                         last.ret[c] = SelectSeq(F, LAMBDA i : ClassOfRow(l, i) = c)
                    /\ (StrictlyAscending(F) /\ ToSet(F) \subseteq ToSet(Rows(l)))
                         => last.ret = Restricted(Val(l.object_indices_per_class), F)
             ELSE last.err = "IndexError"

\* the labeling lab, of two classes that both label a row, was asked for two rows of
\* one class
C22_Witness ==
  /\ last.op = "get_obj_is_per_class"
  /\ last.labeling_name = "lab"
  /\ ~IsNone(last.object_is)
  /\ last.err = NoErr
  /\ Len(Val(last.object_is)) = 2
  /\ StrictlyAscending(Val(last.object_is))
  /\ Cardinality(DOMAIN Val(AskedLabeling.object_indices_per_class)) = 2
  /\ Cardinality(DOMAIN last.ret) = 1

----------------------------------------------------------------------------
(* Properties of get_dataset with a feature filter *)

\* the labeling name a get_dataset call resolves to
DatasetLabeling == IF IsNone(last.labeling_name) THEN "one_class" ELSE Val(last.labeling_name)

\* C23: get_dataset called with stored feature ids as feat_ids and without class_ids,
\* on a stored labeling of valid codes and distinct class names, succeeds and returns the sample names, the targets
\* and the target names that the call without any filter returns.
C23_FeatureFilterKeepsObjectsAndClasses ==
  (/\ last.op = "get_dataset"
   /\ Truthy(last.feat_ids)
   /\ IsNone(last.class_ids)
   /\ LookupLabeling(fm, DatasetLabeling).err = NoErr
   /\ WellFormed(LookupLabeling(fm, DatasetLabeling).ret, fm.object_ids)
   /\ ~IsNone(fm.feature_ids)
   /\ ToSet(Val(last.feat_ids)) \subseteq ToSet(Val(fm.feature_ids)))
    => LET whole == get_dataset(fm, None, last.labeling_name, None, last.standardized)
       IN /\ last.err = NoErr
          /\ whole.err = NoErr
          /\ last.ret.sample_names = whole.ret.sample_names
          /\ last.ret.target = whole.ret.target
          /\ last.ret.target_names = whole.ret.target_names

----------------------------------------------------------------------------
(* The default labeling *)

\* the matrix m holds the labeling one_class with the single class all
HasDefaultLabeling(m) ==
  /\ LookupLabeling(m, "one_class").err = NoErr
  /\ LookupLabeling(m, "one_class").ret.class_names = Some(<< "all" >>)

\* C24: in each FeatureMatrix, the two of a FeatureExtraction included, a bound list
\* of at least one object id implies that the labeling one_class with the single
\* class all is stored.
C24_BoundObjectsHaveTheDefaultLabeling ==
  \A m \in { fm, fe.fm_protein, fe.fm_missense } :
    Truthy(m.object_ids) => HasDefaultLabeling(m)

----------------------------------------------------------------------------
(* Frame of merge and add_features: the lists of others *)

\* the ids of the block whose list self holds: the first block that has an id, if any
\* (the blocks after it extend its list), else the block added last
BoundIds(bs) ==
  IF \E k \in 1..Len(bs) : bs[k].ids # << >>
    THEN bs[CHOOSE k \in 1..Len(bs) :
              bs[k].ids # << >> /\ \A j \in 1..(k - 1) : bs[j].ids = << >>].ids
  ELSE bs[Len(bs)].ids

\* C25: the instance handed to merge keeps the feature ids, the matrix and the names
\* it was handed over with, whatever is added to self afterwards, and the id list the
\* caller passed to the first add_features keeps the ids it was passed with.
C25_OtherAndCallerKeepTheirLists ==
  /\ ~IsNone(other) => Val(other) \in OtherInstances
  /\ (~IsNone(caller_ids) /\ blocks # << >>) => Val(caller_ids) = BoundIds(blocks)

====
